---- MODULE Spec2Model ----
(***************************************************************************)
(* Build Advisor of the Diablo III gear dashboard: the response normalizer *)
(* (services/claudeAnalysis.ts), the domain validator with its reference   *)
(* data (data/d3Reference.ts) and the recommendation store with its cache  *)
(* (stores/claudeAnalysis.ts).                                             *)
(***************************************************************************)
EXTENDS Integers, Sequences, FiniteSets, TLC

VARIABLES
    \* ---- the recommendation store (stores/claudeAnalysis.ts)
    recommendation,      \* ref<AnyBuildRecommendation | null>
    isAnalyzing,         \* ref(false)
    error,               \* ref<string | null>
    analyzedHeroId,      \* ref<number | null>
    isEnhancedAnalysis,  \* ref(false)
    cache,               \* Map<heroId, AnyBuildRecommendation>
    useMaxrollData,      \* settings.useMaxrollData
    claudeApiKey,        \* settings.claudeApiKey
    runs,                \* the generateBuildSuggestion calls suspended at an await
    nextSeq,             \* number of pipeline runs started so far
    recWriter,           \* start order of the run that wrote recommendation (0: none)
    cacheWriter,         \* per hero id, start order of the run that wrote the entry
    last,                \* the store operation that ran last
    \* ---- the hero store and the saved reports store, as the views use them
    currentHero,         \* heroStore.currentHero: ref<Hero | null>
    reports,             \* savedReportsStore.reports: ref<SavedReport[]>
    \* ---- one call of analyzeHero / analyzeHeroEnhanced taken step by step
    content,             \* the text the producer returned
    heroClass,           \* hero.heroClass
    enhanced,            \* TRUE: analyzeHeroEnhanced, FALSE: analyzeHero
    pc,                  \* "start", "parsed", "done", "failed"
    parsed,              \* what parseResponse / parseEnhancedResponse gave
    outcome              \* what the call returned or threw

storeVars == <<recommendation, isAnalyzing, error, analyzedHeroId,
               isEnhancedAnalysis, cache, useMaxrollData, claudeApiKey, runs,
               nextSeq, recWriter, cacheWriter, last>>
callVars == <<content, heroClass, enhanced, pc, parsed, outcome>>
viewVars == <<currentHero, reports>>
vars == <<recommendation, isAnalyzing, error, analyzedHeroId,
          isEnhancedAnalysis, cache, useMaxrollData, claudeApiKey, runs,
          nextSeq, recWriter, cacheWriter, last, currentHero, reports,
          content, heroClass, enhanced, pc, parsed, outcome>>

-----------------------------------------------------------------------------
(* JavaScript values.  Every value carries its type tag; a thrown error is  *)
(* a value with tag "throw" that the operators below propagate.             *)

Undefined == [t |-> "undefined"]
Null == [t |-> "null"]
Num(n) == [t |-> "number", n |-> n]
Str(s) == [t |-> "string", s |-> s]
Bool(b) == [t |-> "boolean", b |-> b]
Arr(a) == [t |-> "array", a |-> a]
Obj(o) == [t |-> "object", o |-> o]
EmptyObj == Obj(<<>>)
EmptyArr == Arr(<<>>)

TypeErrorMsg == "TypeError"
Throw(m) == [t |-> "throw", msg |-> m]
TypeError == Throw(TypeErrorMsg)
IsThrow(v) == v.t = "throw"
IsArray(v) == v.t = "array"
IsString(v) == v.t = "string"
IsNumber(v) == v.t = "number"

\* typeof v === 'object' (true of null, arrays and plain objects)
TypeofObject(v) == v.t \in {"null", "array", "object"}

\* ToBoolean
Truthy(v) ==
    CASE v.t = "undefined" -> FALSE
      [] v.t = "null" -> FALSE
      [] v.t = "number" -> v.n # 0
      [] v.t = "string" -> v.s # ""
      [] v.t = "boolean" -> v.b
      [] OTHER -> TRUE

\* a || b
Or(a, b) == IF Truthy(a) THEN a ELSE b

\* v.k : reading a property of null or undefined throws; the keys read by
\* this program are own data keys, absent from every prototype
Get(v, k) ==
    CASE v.t = "throw" -> v
      [] v.t \in {"null", "undefined"} -> TypeError
      [] v.t = "object" -> IF k \in DOMAIN v.o THEN v.o[k] ELSE Undefined
      [] OTHER -> Undefined

\* v?.k
GetOpt(v, k) == IF v.t \in {"null", "undefined"} THEN Undefined ELSE Get(v, k)

\* const x = v; ... : the value v under the name the operator F gives it
Bind(v, F(_)) == F(v)
Bind2(v, w, F(_, _)) == F(v, w)

-----------------------------------------------------------------------------
(* Strings *)

UpperCase == "ABCDEFGHIJKLMNOPQRSTUVWXYZ"
LowerCase == "abcdefghijklmnopqrstuvwxyz"

\* the lower-case letter of every upper-case letter
LowerOf ==
    [c \in {SubSeq(UpperCase, i, i) : i \in 1..Len(UpperCase)} |->
        LET i == CHOOSE j \in 1..Len(UpperCase) : SubSeq(UpperCase, j, j) = c
        IN SubSeq(LowerCase, i, i)]

LowerChar(c) == IF c \in DOMAIN LowerOf THEN LowerOf[c] ELSE c

\* String.prototype.toLowerCase
RECURSIVE toLowerCase(_)
toLowerCase(s) ==
    IF Len(s) = 0 THEN ""
    ELSE LowerChar(SubSeq(s, 1, 1)) \o toLowerCase(SubSeq(s, 2, Len(s)))

\* String.prototype.includes
includes(s, sub) ==
    \E i \in 1..(Len(s) - Len(sub) + 1) : SubSeq(s, i, i + Len(sub) - 1) = sub

\* index of the first occurrence of sub in s at or after from, 0 if none
IndexOf(s, sub, from) ==
    LET hits == {i \in from..(Len(s) - Len(sub) + 1) :
                    SubSeq(s, i, i + Len(sub) - 1) = sub}
    IN IF hits = {} THEN 0 ELSE CHOOSE i \in hits : \A j \in hits : i <= j

\* String.prototype.replace(pattern, by) with a string pattern: first match only
replace(s, pat, by) ==
    LET i == IndexOf(s, pat, 1)
    IN IF i = 0 THEN s
       ELSE SubSeq(s, 1, i - 1) \o by \o SubSeq(s, i + Len(pat), Len(s))

\* number of non-overlapping occurrences of sub in s, scanning left to right
RECURSIVE CountOccurrences(_, _)
CountOccurrences(s, sub) ==
    LET i == IndexOf(s, sub, 1)
    IN IF i = 0 THEN 0
       ELSE 1 + CountOccurrences(SubSeq(s, i + Len(sub), Len(s)), sub)

\* String(v)
RECURSIVE JSString(_)
JSString(v) ==
    CASE v.t = "string" -> v.s
      [] v.t = "number" -> ToString(v.n)
      [] v.t = "boolean" -> IF v.b THEN "true" ELSE "false"
      [] v.t = "null" -> "null"
      [] v.t = "undefined" -> "undefined"
      [] v.t = "array" ->
            IF Len(v.a) = 0 THEN ""
            ELSE LET el(x) == IF x.t \in {"null", "undefined"} THEN "" ELSE JSString(x)
                 IN IF Len(v.a) = 1 THEN el(v.a[1])
                    ELSE el(v.a[1]) \o "," \o JSString(Arr(Tail(v.a)))
      [] OTHER -> "[object Object]"

-----------------------------------------------------------------------------
(* Reference data (data/d3Reference.ts) *)

CLASS_PASSIVES ==
    "barbarian" :> <<
         "Pound of Flesh", "Ruthless", "Nerves of Steel", "Weapons Master",
         "Inspiring Presence", "Berserker Rage", "Bloodthirst", "Animosity",
         "Superstition", "Tough as Nails", "No Escape", "Relentless",
         "Brawler", "Juggernaut", "Unforgiving", "Boon of Bul-Kathos",
         "Earthen Might", "Sword and Board", "Rampage" >> @@
    "crusader" :> <<
         "Heavenly Strength", "Fervor", "Vigilant", "Righteousness",
         "Insurmountable", "Fanaticism", "Indestructible", "Holy Cause",
         "Wrathful", "Divine Fortress", "Lord Commander", "Hold Your Ground",
         "Long Arm of the Law", "Iron Maiden", "Renewal", "Finery",
         "Blunt", "Towering Shield" >> @@
    "demon-hunter" :> <<
         "Thrill of the Hunt", "Tactical Advantage", "Blood Vengeance", "Steady Aim",
         "Cull the Weak", "Night Stalker", "Brooding", "Hot Pursuit",
         "Archery", "Numbing Traps", "Perfectionist", "Custom Engineering",
         "Grenadier", "Sharpshooter", "Ballistics", "Leech",
         "Ambush", "Awareness", "Single Out" >> @@
    "monk" :> <<
         "Resolve", "Fleet Footed", "Exalted Soul", "Transcendence",
         "Chant of Resonance", "Seize the Initiative", "The Guardian's Path", "Sixth Sense",
         "Determination", "Relentless Assault", "Beacon of Ytar", "Alacrity",
         "Harmony", "Combination Strike", "Near Death Experience", "Unity",
         "Momentum", "Mythic Rhythm" >> @@
    "necromancer" :> <<
         "Bone Prison", "Life from Death", "Fueled by Death", "Stand Alone",
         "Swift Harvesting", "Commander of the Dead", "Rigor Mortis", "Overwhelming Essence",
         "Dark Reaping", "Spreading Malediction", "Eternal Torment", "Final Service",
         "Rathma's Shield", "Blood is Power", "Draw Life", "Aberrant Animator",
         "Blood for Blood", "Extended Servitude", "Grisly Tribute" >> @@
    "witch-doctor" :> <<
         "Jungle Fortitude", "Circle of Life", "Spiritual Attunement", "Gruesome Feast",
         "Blood Ritual", "Bad Medicine", "Zombie Handler", "Pierce the Veil",
         "Spirit Vessel", "Fetish Sycophants", "Rush of Essence", "Vision Quest",
         "Fierce Loyalty", "Grave Injustice", "Tribal Rites", "Confidence Ritual",
         "Creeping Death", "Physical Attunement", "Midnight Feast", "Swampland Attunement" >> @@
    "wizard" :> <<
         "Power Hungry", "Blur", "Evocation", "Glass Cannon",
         "Prodigy", "Astral Presence", "Illusionist", "Cold Blooded",
         "Conflagration", "Paralysis", "Galvanizing Ward", "Temporal Flux",
         "Dominance", "Arcane Dynamo", "Unwavering Will", "Audacity",
         "Elemental Exposure", "Unstable Anomaly" >>

SET_BONUSES ==
    "Grace of Inarius" :> (
        2 :> "Bone Armor damage is increased by 1000%" @@
        4 :> "Bone Armor grants an additional 3% damage reduction per enemy hit" @@
        6 :> "Bone Armor also activates a swirling tornado of bone, dealing 1000% weapon damage to all nearby enemies and increasing the damage they take from the Necromancer by 10,000%" ) @@
    "Trag'Oul's Avatar" :> (
        2 :> "Blood Rush gains the effect of every rune" @@
        4 :> "While at full Life, your healing from skills is added to your maximum Life for 45 seconds, up to 100% more" @@
        6 :> "Your Life-spending abilities deal 10,000% increased damage and your healing from skills is increased by 100%" ) @@
    "Bones of Rathma" :> (
        2 :> "Your Skeletal Mages gain the effect of the Gift of Death and Singularity runes" @@
        4 :> "You gain 1% damage reduction for 15 seconds each time your Skeletal Mages deal damage. Max 75 stacks" @@
        6 :> "Each active Skeletal Mage increases the damage of your Skeletal Mages and Army of the Dead by 1000%" ) @@
    "Pestilence Master's Shroud" :> (
        2 :> "Each corpse you consume fires a Corpse Lance at a nearby enemy" @@
        4 :> "Each enemy you hit with Bone Spear, Corpse Lance, or Corpse Explosion reduces your damage taken by 2%, up to a maximum of 50%. Lasts 15 seconds" @@
        6 :> "Each corpse you consume grants you an Empowered Bone Spear charge that increases the damage of your next Bone Spear by 6000%. You can have up to 100 charges" ) @@
    "Masquerade of the Burning Carnival" :> (
        2 :> "Your Simulacrums no longer take damage, gains all runes, and its cooldown is refreshed when you die" @@
        4 :> "While you have a Simulacrum, damage taken is reduced by 50%. Damage dealt to you is split with your Simulacrums" @@
        6 :> "Bone Spear cast by you and your Simulacrums deals 10,000% increased damage" )

\* own keys of JEWELRY_SETS in insertion order, with their slots
JEWELRY_SET_NAMES == <<"Focus and Restraint", "Endless Walk", "Bastions of Will">>
JEWELRY_SETS ==
    "Focus and Restraint" :> [slots |-> <<"leftFinger", "rightFinger">>,
                              items |-> <<"Focus", "Restraint">>] @@
    "Endless Walk" :> [slots |-> <<"neck", "leftFinger">>,
                       items |-> <<"The Traveler's Pledge", "The Compass Rose">>] @@
    "Bastions of Will" :> [slots |-> <<"leftFinger", "rightFinger">>,
                           items |-> <<"Focus", "Restraint">>]

ITEM_ACQUISITION ==
    "Captain Crimson's Trimmings" :> Obj([slot |-> Str("waist,legs,wrists"),
        methods |-> Arr(<<Str("crafting")>>),
        primaryMethod |-> Str("crafting"),
        estimatedTime |-> Str("quick"),
        bountyMaterialsRequired |-> Bool(TRUE),
        craftingRecipeSource |-> Str("Bounty cache (any act)"),
        notes |-> Str("Best 3pc set for CDR builds. Craft at Blacksmith after finding recipe.")]) @@
    "Sage's Journey" :> Obj([slot |-> Str("head,hands,feet"),
        methods |-> Arr(<<Str("crafting")>>),
        primaryMethod |-> Str("crafting"),
        estimatedTime |-> Str("quick"),
        bountyMaterialsRequired |-> Bool(TRUE),
        craftingRecipeSource |-> Str("Bounty cache (any act)"),
        notes |-> Str("Double Death's Breath drops. Great for farming builds.")]) @@
    "Aughild's Authority" :> Obj([slot |-> Str("shoulders,torso,wrists"),
        methods |-> Arr(<<Str("crafting")>>),
        primaryMethod |-> Str("crafting"),
        estimatedTime |-> Str("quick"),
        bountyMaterialsRequired |-> Bool(TRUE),
        craftingRecipeSource |-> Str("Bounty cache (any act)"),
        notes |-> Str("30% elite damage bonus. Strong defensive option.")]) @@
    "Born's Command" :> Obj([slot |-> Str("shoulders,torso,mainHand"),
        methods |-> Arr(<<Str("crafting")>>),
        primaryMethod |-> Str("crafting"),
        estimatedTime |-> Str("quick"),
        bountyMaterialsRequired |-> Bool(TRUE),
        craftingRecipeSource |-> Str("Bounty cache (any act)"),
        notes |-> Str("CDR and XP bonus. Good for leveling and speed builds.")]) @@
    "Cain's Destiny" :> Obj([slot |-> Str("head,hands,legs"),
        methods |-> Arr(<<Str("crafting")>>),
        primaryMethod |-> Str("crafting"),
        estimatedTime |-> Str("quick"),
        bountyMaterialsRequired |-> Bool(TRUE),
        craftingRecipeSource |-> Str("Bounty cache (any act)"),
        notes |-> Str("XP and magic find bonus. Speed farming option.")]) @@
    "Scythe of the Cycle" :> Obj([slot |-> Str("mainHand"),
        methods |-> Arr(<<Str("cube_upgrade"), Str("kadala"), Str("greater_rift")>>),
        primaryMethod |-> Str("cube_upgrade"),
        estimatedTime |-> Str("medium"),
        deathsBreathCost |-> Num(25),
        bloodShardCost |-> Num(75),
        notes |-> Str("Core for secondary skill builds. Upgrade rare scythes at cube.")]) @@
    "Trag'Oul's Corroded Fang" :> Obj([slot |-> Str("mainHand"),
        methods |-> Arr(<<Str("cube_upgrade"), Str("kadala"), Str("greater_rift")>>),
        primaryMethod |-> Str("cube_upgrade"),
        estimatedTime |-> Str("medium"),
        deathsBreathCost |-> Num(25),
        bloodShardCost |-> Num(75),
        notes |-> Str("Core for curse-based builds. Upgrade rare scythes.")]) @@
    "Reilena's Shadowhook" :> Obj([slot |-> Str("mainHand"),
        methods |-> Arr(<<Str("cube_upgrade"), Str("kadala"), Str("greater_rift")>>),
        primaryMethod |-> Str("cube_upgrade"),
        estimatedTime |-> Str("medium"),
        deathsBreathCost |-> Num(25),
        bloodShardCost |-> Num(75),
        notes |-> Str("Essence stacking builds. Best in slot for Bone Spear.")]) @@
    "Nayr's Black Death" :> Obj([slot |-> Str("mainHand"),
        methods |-> Arr(<<Str("cube_upgrade"), Str("kadala"), Str("greater_rift")>>),
        primaryMethod |-> Str("cube_upgrade"),
        estimatedTime |-> Str("medium"),
        deathsBreathCost |-> Num(25),
        bloodShardCost |-> Num(75),
        notes |-> Str("Poison skill builds. Stack different poison skills.")]) @@
    "Bloodtide Blade" :> Obj([slot |-> Str("mainHand"),
        methods |-> Arr(<<Str("cube_upgrade"), Str("kadala"), Str("greater_rift")>>),
        primaryMethod |-> Str("cube_upgrade"),
        estimatedTime |-> Str("medium"),
        deathsBreathCost |-> Num(25),
        bloodShardCost |-> Num(75),
        notes |-> Str("Death Nova builds. Scales with enemy density.")]) @@
    "Funerary Pick" :> Obj([slot |-> Str("mainHand"),
        methods |-> Arr(<<Str("cube_upgrade"), Str("kadala"), Str("greater_rift")>>),
        primaryMethod |-> Str("cube_upgrade"),
        estimatedTime |-> Str("medium"),
        deathsBreathCost |-> Num(25),
        bloodShardCost |-> Num(75),
        notes |-> Str("Siphon Blood builds. Generates corpses.")]) @@
    "Lost Time" :> Obj([slot |-> Str("offHand"),
        methods |-> Arr(<<Str("cube_upgrade"), Str("kadala"), Str("greater_rift")>>),
        primaryMethod |-> Str("cube_upgrade"),
        estimatedTime |-> Str("medium"),
        deathsBreathCost |-> Num(25),
        bloodShardCost |-> Num(75),
        notes |-> Str("Cold builds. Slows enemies for Krysbin's synergy.")]) @@
    "Iron Rose" :> Obj([slot |-> Str("offHand"),
        methods |-> Arr(<<Str("cube_upgrade"), Str("kadala"), Str("greater_rift")>>),
        primaryMethod |-> Str("cube_upgrade"),
        estimatedTime |-> Str("medium"),
        deathsBreathCost |-> Num(25),
        bloodShardCost |-> Num(75),
        notes |-> Str("Blood Nova procs. Siphon Blood synergy.")]) @@
    "Leger's Disdain" :> Obj([slot |-> Str("offHand"),
        methods |-> Arr(<<Str("cube_upgrade"), Str("kadala"), Str("greater_rift")>>),
        primaryMethod |-> Str("cube_upgrade"),
        estimatedTime |-> Str("medium"),
        deathsBreathCost |-> Num(25),
        bloodShardCost |-> Num(75),
        notes |-> Str("Grim Scythe builds. Essence scaling.")]) @@
    "Krysbin's Sentence" :> Obj([slot |-> Str("leftFinger,rightFinger"),
        methods |-> Arr(<<Str("cube_upgrade"), Str("kadala"), Str("greater_rift")>>),
        primaryMethod |-> Str("cube_upgrade"),
        estimatedTime |-> Str("medium"),
        deathsBreathCost |-> Num(50),
        bloodShardCost |-> Num(50),
        notes |-> Str("Best damage ring for CC builds. Pairs with cold/stun effects.")]) @@
    "Circle of Nailuj's Evol" :> Obj([slot |-> Str("leftFinger,rightFinger"),
        methods |-> Arr(<<Str("cube_upgrade"), Str("kadala"), Str("greater_rift")>>),
        primaryMethod |-> Str("cube_upgrade"),
        estimatedTime |-> Str("medium"),
        deathsBreathCost |-> Num(50),
        bloodShardCost |-> Num(50),
        notes |-> Str("Skeletal Mage builds. Double mage summons.")]) @@
    "Haunted Visions" :> Obj([slot |-> Str("neck"),
        methods |-> Arr(<<Str("cube_upgrade"), Str("kadala"), Str("greater_rift")>>),
        primaryMethod |-> Str("cube_upgrade"),
        estimatedTime |-> Str("medium"),
        deathsBreathCost |-> Num(50),
        bloodShardCost |-> Num(100),
        notes |-> Str("Simulacrum builds. Permanent uptime.")]) @@
    "Focus" :> Obj([slot |-> Str("leftFinger,rightFinger"),
        methods |-> Arr(<<Str("cube_upgrade"), Str("kadala"), Str("greater_rift"), Str("world_drop")>>),
        primaryMethod |-> Str("cube_upgrade"),
        estimatedTime |-> Str("medium"),
        deathsBreathCost |-> Num(50),
        bloodShardCost |-> Num(50),
        notes |-> Str("Part of Focus & Restraint. Generator/spender damage bonus.")]) @@
    "Restraint" :> Obj([slot |-> Str("leftFinger,rightFinger"),
        methods |-> Arr(<<Str("cube_upgrade"), Str("kadala"), Str("greater_rift"), Str("world_drop")>>),
        primaryMethod |-> Str("cube_upgrade"),
        estimatedTime |-> Str("medium"),
        deathsBreathCost |-> Num(50),
        bloodShardCost |-> Num(50),
        notes |-> Str("Part of Focus & Restraint. Generator/spender damage bonus.")]) @@
    "The Compass Rose" :> Obj([slot |-> Str("leftFinger,rightFinger"),
        methods |-> Arr(<<Str("cube_upgrade"), Str("kadala"), Str("greater_rift"), Str("world_drop")>>),
        primaryMethod |-> Str("cube_upgrade"),
        estimatedTime |-> Str("medium"),
        deathsBreathCost |-> Num(50),
        bloodShardCost |-> Num(50),
        notes |-> Str("Part of Endless Walk set. Standing still = damage.")]) @@
    "Convention of Elements" :> Obj([slot |-> Str("leftFinger,rightFinger"),
        methods |-> Arr(<<Str("cube_upgrade"), Str("kadala"), Str("greater_rift"), Str("world_drop")>>),
        primaryMethod |-> Str("cube_upgrade"),
        estimatedTime |-> Str("medium"),
        deathsBreathCost |-> Num(50),
        bloodShardCost |-> Num(50),
        notes |-> Str("Rotating 200% damage buff. Best cubed for most builds.")]) @@
    "Unity" :> Obj([slot |-> Str("leftFinger,rightFinger"),
        methods |-> Arr(<<Str("cube_upgrade"), Str("kadala"), Str("greater_rift"), Str("world_drop")>>),
        primaryMethod |-> Str("cube_upgrade"),
        estimatedTime |-> Str("medium"),
        deathsBreathCost |-> Num(50),
        bloodShardCost |-> Num(50),
        notes |-> Str("50% damage split with follower (needs immortal relic). Solo pushing.")]) @@
    "Ring of Royal Grandeur" :> Obj([slot |-> Str("leftFinger,rightFinger"),
        methods |-> Arr(<<Str("bounty")>>),
        primaryMethod |-> Str("bounty"),
        estimatedTime |-> Str("medium"),
        bountyMaterialsRequired |-> Bool(TRUE),
        dropLocations |-> Arr(<<Str("Act 1 Bounty Cache")>>),
        notes |-> Str("Reduces set requirements by 1. Only from Act 1 bounties!")]) @@
    "Avarice Band" :> Obj([slot |-> Str("leftFinger,rightFinger"),
        methods |-> Arr(<<Str("bounty")>>),
        primaryMethod |-> Str("bounty"),
        estimatedTime |-> Str("medium"),
        bountyMaterialsRequired |-> Bool(TRUE),
        dropLocations |-> Arr(<<Str("Act 3 Bounty Cache")>>),
        notes |-> Str("Gold pickup radius. Speed farming. Only from Act 3 bounties!")]) @@
    "Stone of Jordan" :> Obj([slot |-> Str("leftFinger,rightFinger"),
        methods |-> Arr(<<Str("cube_upgrade"), Str("kadala"), Str("greater_rift"), Str("world_drop")>>),
        primaryMethod |-> Str("cube_upgrade"),
        estimatedTime |-> Str("medium"),
        deathsBreathCost |-> Num(50),
        bloodShardCost |-> Num(50),
        notes |-> Str("Elite damage. Good for push builds.")]) @@
    "Oculus Ring" :> Obj([slot |-> Str("leftFinger,rightFinger"),
        methods |-> Arr(<<Str("cube_upgrade"), Str("kadala"), Str("greater_rift"), Str("world_drop")>>),
        primaryMethod |-> Str("world_drop"),
        estimatedTime |-> Str("quick"),
        notes |-> Str("Spawns damage zones. Put on follower!")]) @@
    "The Traveler's Pledge" :> Obj([slot |-> Str("neck"),
        methods |-> Arr(<<Str("cube_upgrade"), Str("kadala"), Str("greater_rift"), Str("world_drop")>>),
        primaryMethod |-> Str("cube_upgrade"),
        estimatedTime |-> Str("medium"),
        deathsBreathCost |-> Num(50),
        bloodShardCost |-> Num(100),
        notes |-> Str("Part of Endless Walk set. Standing still = damage.")]) @@
    "Hellfire Amulet" :> Obj([slot |-> Str("neck"),
        methods |-> Arr(<<Str("crafting")>>),
        primaryMethod |-> Str("crafting"),
        estimatedTime |-> Str("long"),
        notes |-> Str("Crafted from Uber boss materials. Grants 5th passive.")]) @@
    "Squirt's Necklace" :> Obj([slot |-> Str("neck"),
        methods |-> Arr(<<Str("cube_upgrade"), Str("kadala"), Str("greater_rift"), Str("world_drop")>>),
        primaryMethod |-> Str("world_drop"),
        estimatedTime |-> Str("quick"),
        notes |-> Str("Stacking damage when not hit. Glass cannon builds.")]) @@
    "The Flavor of Time" :> Obj([slot |-> Str("neck"),
        methods |-> Arr(<<Str("cube_upgrade"), Str("kadala"), Str("greater_rift"), Str("world_drop")>>),
        primaryMethod |-> Str("world_drop"),
        estimatedTime |-> Str("quick"),
        notes |-> Str("Double pylon duration. Put on follower!")]) @@
    "Aquila Cuirass" :> Obj([slot |-> Str("torso"),
        methods |-> Arr(<<Str("cube_upgrade"), Str("kadala"), Str("greater_rift"), Str("world_drop")>>),
        primaryMethod |-> Str("kadala"),
        estimatedTime |-> Str("medium"),
        bloodShardCost |-> Num(25),
        deathsBreathCost |-> Num(25),
        notes |-> Str("50% DR above 90% resource. Best cubed for most builds.")]) @@
    "Stone Gauntlets" :> Obj([slot |-> Str("hands"),
        methods |-> Arr(<<Str("cube_upgrade"), Str("kadala"), Str("greater_rift"), Str("world_drop")>>),
        primaryMethod |-> Str("kadala"),
        estimatedTime |-> Str("medium"),
        bloodShardCost |-> Num(25),
        deathsBreathCost |-> Num(25),
        notes |-> Str("Massive armor stacking. Needs Ingeom or Ice Climbers to offset slow.")]) @@
    "Ice Climbers" :> Obj([slot |-> Str("feet"),
        methods |-> Arr(<<Str("cube_upgrade"), Str("kadala"), Str("greater_rift"), Str("world_drop")>>),
        primaryMethod |-> Str("kadala"),
        estimatedTime |-> Str("medium"),
        bloodShardCost |-> Num(25),
        deathsBreathCost |-> Num(25),
        notes |-> Str("Immune to freeze and slow. Counters Stone Gauntlets.")]) @@
    "Nemesis Bracers" :> Obj([slot |-> Str("wrists"),
        methods |-> Arr(<<Str("cube_upgrade"), Str("kadala"), Str("greater_rift"), Str("world_drop")>>),
        primaryMethod |-> Str("kadala"),
        estimatedTime |-> Str("quick"),
        bloodShardCost |-> Num(25),
        notes |-> Str("Spawns elites from shrines. Speed farming or follower.")]) @@
    "Strongarm Bracers" :> Obj([slot |-> Str("wrists"),
        methods |-> Arr(<<Str("cube_upgrade"), Str("kadala"), Str("greater_rift"), Str("world_drop")>>),
        primaryMethod |-> Str("kadala"),
        estimatedTime |-> Str("quick"),
        bloodShardCost |-> Num(25),
        notes |-> Str("Knockback = 30% more damage. Pairs with CC skills.")]) @@
    "Goldwrap" :> Obj([slot |-> Str("waist"),
        methods |-> Arr(<<Str("cube_upgrade"), Str("kadala"), Str("greater_rift"), Str("world_drop")>>),
        primaryMethod |-> Str("kadala"),
        estimatedTime |-> Str("quick"),
        bloodShardCost |-> Num(25),
        notes |-> Str("Gold = armor. Speed farming with Boon of the Hoarder.")]) @@
    "The Witching Hour" :> Obj([slot |-> Str("waist"),
        methods |-> Arr(<<Str("cube_upgrade"), Str("kadala"), Str("greater_rift"), Str("world_drop")>>),
        primaryMethod |-> Str("kadala"),
        estimatedTime |-> Str("long"),
        bloodShardCost |-> Num(25),
        notes |-> Str("Attack speed + crit damage. Rare drop, best belt for DPS.")]) @@
    "Leoric's Crown" :> Obj([slot |-> Str("head"),
        methods |-> Arr(<<Str("cube_upgrade"), Str("kadala"), Str("greater_rift"), Str("world_drop")>>),
        primaryMethod |-> Str("kadala"),
        estimatedTime |-> Str("quick"),
        bloodShardCost |-> Num(25),
        notes |-> Str("Double gem effect in helm. CDR with diamond.")]) @@
    "Pride's Fall" :> Obj([slot |-> Str("head"),
        methods |-> Arr(<<Str("bounty")>>),
        primaryMethod |-> Str("bounty"),
        estimatedTime |-> Str("medium"),
        bountyMaterialsRequired |-> Bool(TRUE),
        dropLocations |-> Arr(<<Str("Act 3 Bounty Cache")>>),
        notes |-> Str("30% resource cost reduction. Only from Act 3 bounties!")]) @@
    "Bane of the Trapped" :> Obj([slot |-> Str("gem"),
        methods |-> Arr(<<Str("greater_rift")>>),
        primaryMethod |-> Str("greater_rift"),
        estimatedTime |-> Str("quick"),
        notes |-> Str("First gem to level. Auto-slows at rank 25.")]) @@
    "Bane of the Stricken" :> Obj([slot |-> Str("gem"),
        methods |-> Arr(<<Str("greater_rift")>>),
        primaryMethod |-> Str("greater_rift"),
        estimatedTime |-> Str("quick"),
        notes |-> Str("Boss killer. Essential for high GR pushing.")]) @@
    "Bane of the Powerful" :> Obj([slot |-> Str("gem"),
        methods |-> Arr(<<Str("greater_rift")>>),
        primaryMethod |-> Str("greater_rift"),
        estimatedTime |-> Str("quick"),
        notes |-> Str("Easy damage buff. Good for speed farming.")]) @@
    "Zei's Stone of Vengeance" :> Obj([slot |-> Str("gem"),
        methods |-> Arr(<<Str("greater_rift")>>),
        primaryMethod |-> Str("greater_rift"),
        estimatedTime |-> Str("quick"),
        notes |-> Str("Ranged builds. Damage increases with distance.")]) @@
    "Enforcer" :> Obj([slot |-> Str("gem"),
        methods |-> Arr(<<Str("greater_rift")>>),
        primaryMethod |-> Str("greater_rift"),
        estimatedTime |-> Str("quick"),
        notes |-> Str("Pet builds. +15% pet damage.")]) @@
    "Esoteric Alteration" :> Obj([slot |-> Str("gem"),
        methods |-> Arr(<<Str("greater_rift")>>),
        primaryMethod |-> Str("greater_rift"),
        estimatedTime |-> Str("quick"),
        notes |-> Str("Non-physical DR. Survival gem for pushing.")]) @@
    "Molten Wildebeest's Gizzard" :> Obj([slot |-> Str("gem"),
        methods |-> Arr(<<Str("greater_rift")>>),
        primaryMethod |-> Str("greater_rift"),
        estimatedTime |-> Str("quick"),
        notes |-> Str("Shield and life regen. Pairs with Squirt's Necklace.")]) @@
    "Gogok of Swiftness" :> Obj([slot |-> Str("gem"),
        methods |-> Arr(<<Str("greater_rift")>>),
        primaryMethod |-> Str("greater_rift"),
        estimatedTime |-> Str("quick"),
        notes |-> Str("CDR and attack speed. Great for cooldown builds.")]) @@
    "Pain Enhancer" :> Obj([slot |-> Str("gem"),
        methods |-> Arr(<<Str("greater_rift")>>),
        primaryMethod |-> Str("greater_rift"),
        estimatedTime |-> Str("quick"),
        notes |-> Str("Attack speed from bleeds. AoE builds.")]) @@
    "Boon of the Hoarder" :> Obj([slot |-> Str("gem"),
        methods |-> Arr(<<Str("greater_rift")>>),
        primaryMethod |-> Str("greater_rift"),
        estimatedTime |-> Str("quick"),
        dropLocations |-> Arr(<<Str("Greed's Domain (Vault)")>>),
        notes |-> Str("Gold explosions. Speed farming with Goldwrap.")]) @@
    "Gem of Efficacious Toxin" :> Obj([slot |-> Str("gem"),
        methods |-> Arr(<<Str("greater_rift")>>),
        primaryMethod |-> Str("greater_rift"),
        estimatedTime |-> Str("quick"),
        notes |-> Str("Poison DoT + 10% damage taken debuff.")]) @@
    "Enchanting Favor" :> Obj([slot |-> Str("follower"),
        methods |-> Arr(<<Str("world_drop"), Str("kadala")>>),
        primaryMethod |-> Str("world_drop"),
        estimatedTime |-> Str("medium"),
        notes |-> Str("Enchantress immortal relic. Required for Unity combo.")]) @@
    "Skeleton Key" :> Obj([slot |-> Str("follower"),
        methods |-> Arr(<<Str("world_drop"), Str("kadala")>>),
        primaryMethod |-> Str("world_drop"),
        estimatedTime |-> Str("medium"),
        notes |-> Str("Scoundrel immortal relic. Required for Unity combo.")]) @@
    "Smoking Thurible" :> Obj([slot |-> Str("follower"),
        methods |-> Arr(<<Str("world_drop"), Str("kadala")>>),
        primaryMethod |-> Str("world_drop"),
        estimatedTime |-> Str("medium"),
        notes |-> Str("Templar immortal relic. Required for Unity combo.")]) @@
    "Bul-Kathos's Oath" :> Obj([slot |-> Str("mainHand,offHand"),
        methods |-> Arr(<<Str("cube_upgrade"), Str("kadala"), Str("greater_rift")>>),
        primaryMethod |-> Str("cube_upgrade"),
        estimatedTime |-> Str("medium"),
        deathsBreathCost |-> Num(25),
        notes |-> Str("Whirlwind set weapons. Fury generation.")]) @@
    "The Furnace" :> Obj([slot |-> Str("mainHand"),
        methods |-> Arr(<<Str("cube_upgrade"), Str("greater_rift")>>),
        primaryMethod |-> Str("cube_upgrade"),
        estimatedTime |-> Str("long"),
        deathsBreathCost |-> Num(25),
        notes |-> Str("Elite damage. Often cubed.")]) @@
    "Blade of the Tribes" :> Obj([slot |-> Str("mainHand"),
        methods |-> Arr(<<Str("cube_upgrade"), Str("kadala"), Str("greater_rift")>>),
        primaryMethod |-> Str("cube_upgrade"),
        estimatedTime |-> Str("medium"),
        deathsBreathCost |-> Num(25),
        notes |-> Str("Leap/Earthquake builds.")]) @@
    "Yang's Recurve" :> Obj([slot |-> Str("mainHand"),
        methods |-> Arr(<<Str("cube_upgrade"), Str("kadala"), Str("greater_rift")>>),
        primaryMethod |-> Str("cube_upgrade"),
        estimatedTime |-> Str("medium"),
        deathsBreathCost |-> Num(25),
        notes |-> Str("Multishot build core. Resource cost reduction.")]) @@
    "Dead Man's Legacy" :> Obj([slot |-> Str("offHand"),
        methods |-> Arr(<<Str("cube_upgrade"), Str("kadala"), Str("greater_rift")>>),
        primaryMethod |-> Str("cube_upgrade"),
        estimatedTime |-> Str("medium"),
        deathsBreathCost |-> Num(25),
        notes |-> Str("Multishot hits twice. Essential for UE build.")]) @@
    "Fortress Ballista" :> Obj([slot |-> Str("mainHand"),
        methods |-> Arr(<<Str("cube_upgrade"), Str("kadala"), Str("greater_rift")>>),
        primaryMethod |-> Str("cube_upgrade"),
        estimatedTime |-> Str("medium"),
        deathsBreathCost |-> Num(25),
        notes |-> Str("Shield on attack. Survivability option.")]) @@
    "Dawn" :> Obj([slot |-> Str("mainHand"),
        methods |-> Arr(<<Str("cube_upgrade"), Str("kadala"), Str("greater_rift")>>),
        primaryMethod |-> Str("cube_upgrade"),
        estimatedTime |-> Str("medium"),
        deathsBreathCost |-> Num(25),
        notes |-> Str("Vengeance CDR. 100% uptime with 37% CDR.")]) @@
    "Lord Greenstone's Fan" :> Obj([slot |-> Str("offHand"),
        methods |-> Arr(<<Str("cube_upgrade"), Str("kadala"), Str("greater_rift")>>),
        primaryMethod |-> Str("cube_upgrade"),
        estimatedTime |-> Str("medium"),
        deathsBreathCost |-> Num(25),
        notes |-> Str("Fan of Knives damage. GoD build.")]) @@
    "Deathwish" :> Obj([slot |-> Str("mainHand"),
        methods |-> Arr(<<Str("cube_upgrade"), Str("kadala"), Str("greater_rift")>>),
        primaryMethod |-> Str("cube_upgrade"),
        estimatedTime |-> Str("medium"),
        deathsBreathCost |-> Num(25),
        notes |-> Str("Channeling damage. Vyr/Chantodo builds.")]) @@
    "Etched Sigil" :> Obj([slot |-> Str("offHand"),
        methods |-> Arr(<<Str("cube_upgrade"), Str("kadala"), Str("greater_rift")>>),
        primaryMethod |-> Str("cube_upgrade"),
        estimatedTime |-> Str("medium"),
        deathsBreathCost |-> Num(25),
        notes |-> Str("Auto-cast spenders while channeling.")]) @@
    "Chantodo's Resolve" :> Obj([slot |-> Str("mainHand,offHand"),
        methods |-> Arr(<<Str("cube_upgrade"), Str("kadala"), Str("greater_rift")>>),
        primaryMethod |-> Str("cube_upgrade"),
        estimatedTime |-> Str("medium"),
        deathsBreathCost |-> Num(25),
        notes |-> Str("Archon build core. Wave of Destruction.")]) @@
    "The Twisted Sword" :> Obj([slot |-> Str("mainHand"),
        methods |-> Arr(<<Str("cube_upgrade"), Str("kadala"), Str("greater_rift")>>),
        primaryMethod |-> Str("cube_upgrade"),
        estimatedTime |-> Str("medium"),
        deathsBreathCost |-> Num(25),
        notes |-> Str("Energy Twister damage.")]) @@
    "Kyoshiro's Blade" :> Obj([slot |-> Str("mainHand"),
        methods |-> Arr(<<Str("cube_upgrade"), Str("kadala"), Str("greater_rift")>>),
        primaryMethod |-> Str("cube_upgrade"),
        estimatedTime |-> Str("medium"),
        deathsBreathCost |-> Num(25),
        notes |-> Str("Wave of Light damage.")]) @@
    "Balance" :> Obj([slot |-> Str("mainHand"),
        methods |-> Arr(<<Str("cube_upgrade"), Str("kadala"), Str("greater_rift")>>),
        primaryMethod |-> Str("cube_upgrade"),
        estimatedTime |-> Str("medium"),
        deathsBreathCost |-> Num(25),
        notes |-> Str("Tempest Rush damage.")]) @@
    "Vengeful Wind" :> Obj([slot |-> Str("mainHand"),
        methods |-> Arr(<<Str("cube_upgrade"), Str("kadala"), Str("greater_rift")>>),
        primaryMethod |-> Str("cube_upgrade"),
        estimatedTime |-> Str("medium"),
        deathsBreathCost |-> Num(25),
        notes |-> Str("Sweeping Wind stacks. Patterns of Justice.")]) @@
    "Won Khim Lau" :> Obj([slot |-> Str("mainHand"),
        methods |-> Arr(<<Str("cube_upgrade"), Str("kadala"), Str("greater_rift")>>),
        primaryMethod |-> Str("cube_upgrade"),
        estimatedTime |-> Str("medium"),
        deathsBreathCost |-> Num(25),
        notes |-> Str("Lightning pillar damage.")]) @@
    "Akkhan's Leniency" :> Obj([slot |-> Str("mainHand"),
        methods |-> Arr(<<Str("cube_upgrade"), Str("kadala"), Str("greater_rift")>>),
        primaryMethod |-> Str("cube_upgrade"),
        estimatedTime |-> Str("medium"),
        deathsBreathCost |-> Num(25),
        notes |-> Str("Blessed Shield bounces.")]) @@
    "Fate of the Fell" :> Obj([slot |-> Str("mainHand"),
        methods |-> Arr(<<Str("cube_upgrade"), Str("kadala"), Str("greater_rift")>>),
        primaryMethod |-> Str("cube_upgrade"),
        estimatedTime |-> Str("medium"),
        deathsBreathCost |-> Num(25),
        notes |-> Str("Heaven's Fury builds.")]) @@
    "Blade of Prophecy" :> Obj([slot |-> Str("mainHand"),
        methods |-> Arr(<<Str("cube_upgrade"), Str("kadala"), Str("greater_rift")>>),
        primaryMethod |-> Str("cube_upgrade"),
        estimatedTime |-> Str("medium"),
        deathsBreathCost |-> Num(25),
        notes |-> Str("Condemn explosions.")]) @@
    "The Dagger of Darts" :> Obj([slot |-> Str("mainHand"),
        methods |-> Arr(<<Str("cube_upgrade"), Str("kadala"), Str("greater_rift")>>),
        primaryMethod |-> Str("cube_upgrade"),
        estimatedTime |-> Str("medium"),
        deathsBreathCost |-> Num(25),
        notes |-> Str("Carnevil build core.")]) @@
    "Sacred Harvester" :> Obj([slot |-> Str("mainHand"),
        methods |-> Arr(<<Str("cube_upgrade"), Str("kadala"), Str("greater_rift")>>),
        primaryMethod |-> Str("cube_upgrade"),
        estimatedTime |-> Str("medium"),
        deathsBreathCost |-> Num(25),
        notes |-> Str("Soul Harvest stacks. Jade Harvester.")]) @@
    "Voo's Juicer" :> Obj([slot |-> Str("mainHand"),
        methods |-> Arr(<<Str("cube_upgrade"), Str("kadala"), Str("greater_rift")>>),
        primaryMethod |-> Str("cube_upgrade"),
        estimatedTime |-> Str("medium"),
        deathsBreathCost |-> Num(25),
        notes |-> Str("Spirit Barrage damage.")]) @@
    "The Barber" :> Obj([slot |-> Str("mainHand"),
        methods |-> Arr(<<Str("cube_upgrade"), Str("kadala"), Str("greater_rift")>>),
        primaryMethod |-> Str("cube_upgrade"),
        estimatedTime |-> Str("medium"),
        deathsBreathCost |-> Num(25),
        notes |-> Str("Spirit Barrage explosions.")])

\* property names every plain object inherits from Object.prototype; a
\* lookup table[key] with such a key yields the inherited member
ObjectPrototypeKeys ==
    {"constructor", "toString", "valueOf", "hasOwnProperty", "isPrototypeOf",
     "propertyIsEnumerable", "toLocaleString", "__proto__"}

\* what table[key] yields for a key of ObjectPrototypeKeys: a truthy value
\* with none of the properties this program reads
InheritedMember == [t |-> "function"]

Range(f) == {f[x] : x \in DOMAIN f}

\* own keys of ITEM_ACQUISITION whose lower-case form is lowerName
ItemKeysIgnoringCase(lowerName) ==
    {key \in DOMAIN ITEM_ACQUISITION : toLowerCase(key) = lowerName}

DefaultItemAcquisition ==
    Obj([methods |-> Arr(<<Str("greater_rift"), Str("kadala"), Str("cube_upgrade")>>),
         primaryMethod |-> Str("greater_rift"),
         estimatedTime |-> Str("medium"),
         notes |-> Str("Check Maxroll.gg for specific farming advice.")])

\* no two keys of the table differ only in case, so the first match of the
\* loop over Object.entries is the only one
getItemAcquisition(itemName) ==
    IF itemName \in DOMAIN ITEM_ACQUISITION THEN ITEM_ACQUISITION[itemName]
    ELSE IF itemName \in ObjectPrototypeKeys THEN InheritedMember
    ELSE IF ItemKeysIgnoringCase(toLowerCase(itemName)) # {}
    THEN ITEM_ACQUISITION[CHOOSE key \in ItemKeysIgnoringCase(toLowerCase(itemName)) : TRUE]
    ELSE DefaultItemAcquisition

getPassivesForClass(class) ==
    LET normalized == replace(toLowerCase(class), " ", "-")
    IN IF normalized \in DOMAIN CLASS_PASSIVES THEN Arr(CLASS_PASSIVES[normalized])
       ELSE IF normalized \in ObjectPrototypeKeys THEN InheritedMember
       ELSE EmptyArr

\* isPassiveSkill as it would be with a case-sensitive comparison
isPassiveSkill_CaseSensitive(class, skillName) ==
    LET passives == getPassivesForClass(class)
    IN IF ~IsArray(passives) THEN TypeError
       ELSE IF Len(passives.a) = 0 THEN Bool(FALSE)
       ELSE IF ~IsString(skillName) THEN TypeError
       ELSE Bool(\E i \in DOMAIN passives.a : passives.a[i] = skillName.s)

\* passives.some(p => p.toLowerCase() === skillName.toLowerCase()); skillName
\* is a JavaScript value, the callback throws when it is not a string
isPassiveSkill(class, skillName) ==
    LET passives == getPassivesForClass(class)
    IN IF ~IsArray(passives) THEN TypeError
       ELSE IF Len(passives.a) = 0 THEN Bool(FALSE)
       ELSE IF ~IsString(skillName) THEN TypeError
       ELSE Bool(\E i \in DOMAIN passives.a :
                    toLowerCase(passives.a[i]) = toLowerCase(skillName.s))

\* the callback of recommendedSets.filter: a jewelry set whose name equals
\* or is contained in setName (ignoring case), occupying leftFinger
MatchesRingSet(setName) ==
    LET hits == {i \in DOMAIN JEWELRY_SET_NAMES :
                   \/ toLowerCase(JEWELRY_SET_NAMES[i]) = toLowerCase(setName)
                   \/ includes(toLowerCase(setName), toLowerCase(JEWELRY_SET_NAMES[i]))}
    IN /\ hits # {}
       /\ LET first == CHOOSE i \in hits : \A j \in hits : i <= j
              slots == JEWELRY_SETS[JEWELRY_SET_NAMES[first]].slots
          IN \E k \in DOMAIN slots : slots[k] = "leftFinger"

\* recommendedSets is an array of JavaScript values; the result is the
\* array of conflicting names, null, or a TypeError
checkRingSlotConflicts(recommendedSets) ==
    IF \E i \in DOMAIN recommendedSets : ~IsString(recommendedSets[i]) THEN TypeError
    ELSE LET ringSets == SelectSeq(recommendedSets, LAMBDA n : MatchesRingSet(n.s))
         IN IF Len(ringSets) > 1 THEN Arr(ringSets) ELSE Null

-----------------------------------------------------------------------------
(* The producer's text.  A text is a sequence of tokens: the fence (three   *)
(* backticks),                                                              *)
(* the word json, whitespace, other text, and the pieces of a JSON          *)
(* document.  A document whose strings contain n fences is written as n+1   *)
(* pieces with the fences between them.                                     *)

Fence == [k |-> "fence"]
JsonTag == [k |-> "tag"]
Space == [k |-> "ws"]
Text(s) == [k |-> "text", s |-> s]
Piece(v, i, n) == [k |-> "json", v |-> v, part |-> i, of |-> n]

RECURSIVE SetToSeq(_)
SetToSeq(S) ==
    IF S = {} THEN <<>>
    ELSE LET x == CHOOSE y \in S : TRUE IN <<x>> \o SetToSeq(S \ {x})

\* The backtick cannot be written inside a TLA+ string: in the strings of
\* this module the character ~ stands for it.
FenceChars == "~~~"

\* number of fences inside the strings of a JSON value
RECURSIVE Ticks(_)
Ticks(v) ==
    LET RECURSIVE SumTicks(_)
        SumTicks(q) == IF Len(q) = 0 THEN 0 ELSE Ticks(Head(q)) + SumTicks(Tail(q))
    IN CASE v.t = "string" -> CountOccurrences(v.s, FenceChars)
         [] v.t = "array" -> SumTicks(v.a)
         [] v.t = "object" -> SumTicks([i \in 1..Len(SetToSeq(DOMAIN v.o)) |->
                                          v.o[SetToSeq(DOMAIN v.o)[i]]])
         [] OTHER -> 0

\* the text of a JSON value
Stringify(v) ==
    LET n == Ticks(v) + 1
    IN [i \in 1..(2 * n - 1) |-> IF i % 2 = 1 THEN Piece(v, (i + 1) \div 2, n) ELSE Fence]

\* String.prototype.trim
RECURSIVE trim(_)
trim(toks) ==
    IF Len(toks) = 0 THEN toks
    ELSE IF Head(toks).k = "ws" THEN trim(Tail(toks))
    ELSE IF toks[Len(toks)].k = "ws" THEN trim(SubSeq(toks, 1, Len(toks) - 1))
    ELSE toks

SyntaxErrorMsg == "SyntaxError"

\* JSON.parse: the value when the text is exactly one whole document
\* (surrounding whitespace allowed), a SyntaxError otherwise
JSONparse(toks) ==
    LET body == trim(toks)
    IN IF Len(body) >= 1 /\ body[1].k = "json" /\ body = Stringify(body[1].v)
       THEN body[1].v
       ELSE Throw(SyntaxErrorMsg)

\* content.match(fence, optional json, whitespace, lazy group, fence): the
\* capture group; no match when the text holds fewer than two fences
FenceMatch(text) ==
    LET fences == {i \in 1..Len(text) : text[i].k = "fence"}
    IN IF Cardinality(fences) < 2 THEN [found |-> FALSE]
       ELSE LET open == CHOOSE i \in fences : \A j \in fences : i <= j
                afterTag == IF text[open + 1].k = "tag" THEN open + 2 ELSE open + 1
                from == CHOOSE p \in afterTag..Len(text) :
                            /\ text[p].k # "ws"
                            /\ \A r \in afterTag..(p - 1) : text[r].k = "ws"
                close == CHOOSE i \in fences :
                            i >= from /\ \A j \in fences : j >= from => i <= j
            IN [found |-> TRUE, group |-> SubSeq(text, from, close - 1)]

\* parseResponse, the extraction of jsonStr
ExtractJsonStr(text) ==
    LET jsonMatch == FenceMatch(text)
    IN IF jsonMatch.found THEN trim(jsonMatch.group) ELSE trim(text)

-----------------------------------------------------------------------------
(* Response Normalizer (services/claudeAnalysis.ts) *)

\* the elements of S in descending order
RECURSIVE SortDesc(_)
SortDesc(S) ==
    IF S = {} THEN <<>>
    ELSE LET m == CHOOSE x \in S : \A y \in S : x >= y IN <<m>> \o SortDesc(S \ {m})

RECURSIVE SortAsc(_)
SortAsc(S) ==
    IF S = {} THEN <<>>
    ELSE LET m == CHOOSE x \in S : \A y \in S : x <= y IN <<m>> \o SortAsc(S \ {m})

AnyThrow(q) == \E i \in DOMAIN q : IsThrow(q[i])
FirstThrow(q) == q[CHOOSE i \in DOMAIN q : IsThrow(q[i]) /\ \A j \in DOMAIN q : IsThrow(q[j]) => i <= j]

\* Array.prototype.map with a callback that may throw
MapArr(a, F(_)) ==
    LET r == [i \in DOMAIN a |-> F(a[i])]
    IN IF AnyThrow(r) THEN FirstThrow(r) ELSE Arr(r)

StatRatings == {"minor", "moderate", "major", "transformative"}

validateRating(rating) ==
    IF IsString(rating) /\ rating.s \in StatRatings THEN rating ELSE Str("minor")

normalizeStatProjection(stat) ==
    IF ~Truthy(stat) \/ ~TypeofObject(stat)
    THEN Obj([current |-> Null, estimatedMultiplier |-> Str("N/A"), rating |-> Str("minor")])
    ELSE Obj([current |-> IF IsNumber(Get(stat, "current")) THEN Get(stat, "current") ELSE Null,
              projectedValue |-> IF IsNumber(Get(stat, "projectedValue"))
                                 THEN Get(stat, "projectedValue") ELSE Undefined,
              estimatedMultiplier |-> Str(JSString(Or(Get(stat, "estimatedMultiplier"), Str("N/A")))),
              rating |-> validateRating(Get(stat, "rating")),
              justification |-> IF Truthy(Get(stat, "justification"))
                                THEN Str(JSString(Get(stat, "justification"))) ELSE Undefined,
              note |-> IF Truthy(Get(stat, "note"))
                       THEN Str(JSString(Get(stat, "note"))) ELSE Undefined])

normalizeGRProjection(gr) ==
    IF ~Truthy(gr) \/ ~TypeofObject(gr)
    THEN Obj([current |-> Str("Unknown"), projected |-> Str("Unknown")])
    ELSE Obj([current |-> Str(JSString(Or(Get(gr, "current"), Str("Unknown")))),
              projected |-> Str(JSString(Or(Get(gr, "projected"), Str("Unknown")))),
              note |-> IF Truthy(Get(gr, "note")) THEN Str(JSString(Get(gr, "note"))) ELSE Undefined])

normalizeProjections(projections) ==
    IF ~Truthy(projections) \/ ~TypeofObject(projections) THEN Undefined
    ELSE Obj([damage |-> normalizeStatProjection(Get(projections, "damage")),
              toughness |-> normalizeStatProjection(Get(projections, "toughness")),
              recovery |-> normalizeStatProjection(Get(projections, "recovery")),
              life |-> normalizeStatProjection(Get(projections, "life")),
              grTierPotential |-> normalizeGRProjection(Get(projections, "grTierPotential"))])

EmptyCubePower == Obj([name |-> Str(""), reason |-> Str("")])

\* normalizeCubePower as it would be if only the old string format were read
normalizeCubePower_StringsOnly(value) ==
    IF IsString(value) THEN Obj([name |-> value, reason |-> Str("")]) ELSE EmptyCubePower

normalizeCubePower(value) ==
    IF IsString(value) THEN Obj([name |-> value, reason |-> Str("")])
    ELSE IF TypeofObject(value) /\ value.t # "null"
    THEN Obj([name |-> Str(JSString(Or(Get(value, "name"), Str("")))),
              reason |-> Str(JSString(Or(Get(value, "reason"), Str(""))))])
    ELSE EmptyCubePower

normalizeCubePowers(powers) ==
    IF ~Truthy(powers)
    THEN Obj([weapon |-> EmptyCubePower, armor |-> EmptyCubePower, jewelry |-> EmptyCubePower])
    ELSE Obj([weapon |-> normalizeCubePower(Get(powers, "weapon")),
              armor |-> normalizeCubePower(Get(powers, "armor")),
              jewelry |-> normalizeCubePower(Get(powers, "jewelry"))])

\* one element of s.bonuses.map(...): the cast "b as Record" checks nothing
normalizeBonus(b) ==
    IF IsThrow(Get(b, "pieces")) THEN Get(b, "pieces")
    ELSE Obj([pieces |-> IF IsNumber(Get(b, "pieces")) THEN Get(b, "pieces") ELSE Num(0),
              bonus |-> Str(JSString(Or(Get(b, "bonus"), Str(""))))])

\* SET_BONUSES[name]: an own entry, an inherited member, or undefined
LookupSetBonuses(name) ==
    IF name \in DOMAIN SET_BONUSES THEN [kind |-> "own", tiers |-> SET_BONUSES[name]]
    ELSE IF name \in ObjectPrototypeKeys THEN [kind |-> "inherited", tiers |-> <<>>]
    ELSE [kind |-> "undefined"]

normalizeSet(set) ==
    IF ~Truthy(set) \/ ~TypeofObject(set)
    THEN Obj([name |-> Str(""), pieces |-> Num(0), reason |-> Str("")])
    ELSE LET name == JSString(Or(Get(set, "name"), Str("")))
             pieces == IF IsNumber(Get(set, "pieces")) THEN Get(set, "pieces").n ELSE 0
             reason == JSString(Or(Get(set, "reason"), Str("")))
             given == Get(set, "bonuses")
             refBonuses == LookupSetBonuses(name)
         IN IF IsArray(given) /\ Len(given.a) > 0
            THEN LET bonuses == MapArr(given.a, normalizeBonus)
                 IN IF IsThrow(bonuses) THEN bonuses
                    ELSE Obj([name |-> Str(name), pieces |-> Num(pieces),
                              bonuses |-> bonuses, reason |-> Str(reason)])
            ELSE IF refBonuses.kind # "undefined"
            THEN LET tiers == SortAsc({tp \in DOMAIN refBonuses.tiers : tp <= pieces})
                 IN Obj([name |-> Str(name), pieces |-> Num(pieces),
                         bonuses |-> Arr([i \in DOMAIN tiers |->
                                            Obj([pieces |-> Num(tiers[i]),
                                                 bonus |-> Str(refBonuses.tiers[tiers[i]])])]),
                         reason |-> Str(reason)])
            ELSE Obj([name |-> Str(name), pieces |-> Num(pieces), reason |-> Str(reason)])

normalizeSets(sets) ==
    IF ~IsArray(sets) THEN EmptyArr ELSE MapArr(sets.a, normalizeSet)

ParseErrorMsg == "Failed to parse build recommendations. Please try again."

\* the object literal parseResponse returns, before the try/catch around it
BuildBase(json) ==
    Bind2(Get(json, "skills"), Get(json, "gear"), LAMBDA skills, gear :
      Bind([active |-> Or(GetOpt(skills, "active"), EmptyArr),
            passive |-> Or(GetOpt(skills, "passive"), EmptyArr),
            sets |-> normalizeSets(Or(GetOpt(gear, "sets"), EmptyArr)),
            items |-> Or(GetOpt(gear, "items"), EmptyArr),
            cubePowers |-> normalizeCubePowers(GetOpt(gear, "cubePowers")),
            gems |-> Or(Get(json, "gems"), EmptyArr),
            playstyle |-> Or(Get(json, "playstyle"), Str("")),
            farmingPriority |-> Or(Get(json, "farmingPriority"), EmptyArr),
            summary |-> Or(Get(json, "summary"), Str("")),
            projectedImprovements |-> normalizeProjections(Get(json, "projectedImprovements"))],
           LAMBDA fields :
        IF IsThrow(json) THEN json
        ELSE IF IsThrow(skills) THEN skills
        ELSE IF \E f \in DOMAIN fields : IsThrow(fields[f])
        THEN fields[CHOOSE f \in DOMAIN fields : IsThrow(fields[f])]
        ELSE Obj([skills |-> Obj([active |-> fields.active, passive |-> fields.passive]),
                  gear |-> Obj([sets |-> fields.sets, items |-> fields.items,
                                cubePowers |-> fields.cubePowers]),
                  gems |-> fields.gems,
                  playstyle |-> fields.playstyle,
                  farmingPriority |-> fields.farmingPriority,
                  summary |-> fields.summary,
                  projectedImprovements |-> fields.projectedImprovements])))

\* parseResponse: every error raised inside the try block is replaced by
\* the parse error
parseResponse(text) ==
    Bind(BuildBase(JSONparse(ExtractJsonStr(text))), LAMBDA built :
        IF IsThrow(built) THEN Throw(ParseErrorMsg) ELSE built)

DifficultyTiers == {"quick", "medium", "long"}

validateDifficultyTier(tier) ==
    IF IsString(tier) /\ tier.s \in DifficultyTiers THEN tier ELSE Null

validatePowerIncrease(power) ==
    IF IsString(power) /\ power.s \in StatRatings THEN power ELSE Str("moderate")

\* array.map(String)
MapString(a) == Arr([i \in DOMAIN a |-> Str(JSString(a[i]))])

UnknownItem(tier) ==
    Obj([itemName |-> Str("Unknown Item"), slot |-> Str("unknown"),
         methods |-> Arr(<<Str("world_drop")>>), primaryMethod |-> Str("world_drop"),
         estimatedTime |-> Str(tier)])

normalizeItemAcquisition(item, defaultTier) ==
    IF ~Truthy(item) \/ ~TypeofObject(item) THEN UnknownItem(defaultTier)
    ELSE Bind(JSString(Or(Get(item, "itemName"), Str(""))), LAMBDA itemName :
         Bind(getItemAcquisition(itemName), LAMBDA refData :
         LET numOr(k) == IF IsNumber(Get(item, k)) THEN Get(item, k) ELSE Get(refData, k)
         IN Obj([itemName |-> Str(itemName),
                 slot |-> Str(JSString(Or(Get(item, "slot"),
                                          Or(Get(refData, "slot"), Str("unknown"))))),
                 methods |-> IF IsArray(Get(item, "methods")) THEN Get(item, "methods")
                             ELSE Or(Get(refData, "methods"), Arr(<<Str("world_drop")>>)),
                 primaryMethod |-> Str(JSString(Or(Get(item, "primaryMethod"),
                                                   Or(Get(refData, "primaryMethod"),
                                                      Str("world_drop"))))),
                 estimatedTime |-> Or(validateDifficultyTier(Get(item, "estimatedTime")),
                                      Or(Get(refData, "estimatedTime"), Str(defaultTier))),
                 bloodShardCost |-> numOr("bloodShardCost"),
                 deathsBreathCost |-> numOr("deathsBreathCost"),
                 forgottenSoulCost |-> numOr("forgottenSoulCost"),
                 bountyMaterialsRequired |->
                     Bool(Truthy(Or(Get(item, "bountyMaterialsRequired"),
                                    Get(refData, "bountyMaterialsRequired")))),
                 craftingRecipeSource |->
                     IF Truthy(Get(item, "craftingRecipeSource"))
                     THEN Str(JSString(Get(item, "craftingRecipeSource")))
                     ELSE Get(refData, "craftingRecipeSource"),
                 dropLocations |->
                     IF IsArray(Get(item, "dropLocations"))
                     THEN MapString(Get(item, "dropLocations").a)
                     ELSE Get(refData, "dropLocations"),
                 notes |-> IF Truthy(Get(item, "notes")) THEN Str(JSString(Get(item, "notes")))
                           ELSE Get(refData, "notes")])))

\* index is the 0-based position of the step in its list
createDefaultUpgradeStep(index, tier) ==
    Obj([id |-> Str(tier \o "-" \o ToString(index)),
         priority |-> Num(index + 1),
         item |-> UnknownItem(tier),
         reason |-> Str("Upgrade recommended"),
         powerIncrease |-> Str("moderate")])

normalizeUpgradeStep(step, index, tier) ==
    IF ~Truthy(step) \/ ~TypeofObject(step) THEN createDefaultUpgradeStep(index, tier)
    ELSE Obj([id |-> Str(JSString(Or(Get(step, "id"), Str(tier \o "-" \o ToString(index))))),
              priority |-> IF IsNumber(Get(step, "priority")) THEN Get(step, "priority")
                           ELSE Num(index + 1),
              item |-> normalizeItemAcquisition(Get(step, "item"), tier),
              reason |-> Str(JSString(Or(Get(step, "reason"), Str("")))),
              powerIncrease |-> validatePowerIncrease(Get(step, "powerIncrease")),
              dependsOn |-> IF IsArray(Get(step, "dependsOn"))
                            THEN MapString(Get(step, "dependsOn").a) ELSE Undefined,
              unlocks |-> IF IsArray(Get(step, "unlocks"))
                          THEN MapString(Get(step, "unlocks").a) ELSE Undefined])

normalizeUpgradeSteps(steps, tier) ==
    IF ~IsArray(steps) THEN EmptyArr
    ELSE Arr([i \in DOMAIN steps.a |-> normalizeUpgradeStep(steps.a[i], i - 1, tier)])

EmptyTieredUpgrades == Obj([quick |-> EmptyArr, medium |-> EmptyArr, long |-> EmptyArr])

normalizeTieredUpgrades(upgrades) ==
    IF ~Truthy(upgrades) \/ ~TypeofObject(upgrades) THEN EmptyTieredUpgrades
    ELSE Obj([tier \in DifficultyTiers |-> normalizeUpgradeSteps(Get(upgrades, tier), tier)])

normalizeProgressionPath(path) ==
    IF ~Truthy(path) \/ ~TypeofObject(path)
    THEN Obj([currentPhase |-> Str("Starting out"), steps |-> EmptyArr,
              totalEstimatedTime |-> Str("Unknown"), criticalPath |-> EmptyArr])
    ELSE Obj([currentPhase |-> Str(JSString(Or(Get(path, "currentPhase"), Str("Starting out")))),
              steps |-> normalizeUpgradeSteps(Get(path, "steps"), "medium"),
              totalEstimatedTime |->
                  Str(JSString(Or(Get(path, "totalEstimatedTime"), Str("Unknown")))),
              criticalPath |-> IF IsArray(Get(path, "criticalPath"))
                               THEN MapString(Get(path, "criticalPath").a) ELSE EmptyArr])

\* { ...obj, k: v, ... } : the listed properties override those of obj
Spread(obj, extra) == Obj(extra @@ obj.o)

\* the object the catch block of parseEnhancedResponse adds to the base
FallbackProgressionPath ==
    Obj([currentPhase |-> Str("Analysis in progress"), steps |-> EmptyArr,
         totalEstimatedTime |-> Str("Unknown"), criticalPath |-> EmptyArr])

\* parseEnhancedResponse as it would be with the call of parseResponse moved
\* inside the try block: the catch answers the parse error with the fallback
parseEnhancedResponse_CatchAll(text) ==
    Bind2(parseResponse(text), JSONparse(ExtractJsonStr(text)), LAMBDA baseRec, json :
    Bind2(Get(json, "tieredUpgrades"), Get(json, "progressionPath"),
          LAMBDA tieredUpgrades, progressionPath :
      IF IsThrow(baseRec) \/ IsThrow(json) \/ IsThrow(tieredUpgrades)
          \/ IsThrow(progressionPath)
       THEN Spread(IF IsThrow(baseRec) THEN EmptyObj ELSE baseRec,
                   [tieredUpgrades |-> EmptyTieredUpgrades,
                    progressionPath |-> FallbackProgressionPath])
       ELSE Spread(baseRec,
                   [tieredUpgrades |-> normalizeTieredUpgrades(tieredUpgrades),
                    progressionPath |-> normalizeProgressionPath(progressionPath)])))

\* parseEnhancedResponse: parseResponse runs before the try block, so its
\* parse error leaves the function; the catch covers the second parse only
parseEnhancedResponse(text) ==
    Bind2(parseResponse(text), JSONparse(ExtractJsonStr(text)), LAMBDA baseRec, json :
    Bind2(Get(json, "tieredUpgrades"), Get(json, "progressionPath"),
          LAMBDA tieredUpgrades, progressionPath :
      IF IsThrow(baseRec) THEN baseRec
       ELSE IF IsThrow(json) \/ IsThrow(tieredUpgrades) \/ IsThrow(progressionPath)
       THEN Spread(baseRec,
                   [tieredUpgrades |-> EmptyTieredUpgrades,
                    progressionPath |-> FallbackProgressionPath])
       ELSE Spread(baseRec,
                   [tieredUpgrades |-> normalizeTieredUpgrades(tieredUpgrades),
                    progressionPath |-> normalizeProgressionPath(progressionPath)])))

-----------------------------------------------------------------------------
(* Domain Validator (validateResponse) *)

Warning(type, message) ==
    Obj([type |-> Str(type), message |-> Str(message), severity |-> Str("error")])

SkillTypeMessage(skill) ==
    "\"" \o skill \o "\" is a passive skill, not an active skill. It should not have a rune."

RECURSIVE Join(_, _)
Join(q, sep) ==
    IF Len(q) = 0 THEN ""
    ELSE IF Len(q) = 1 THEN q[1].s
    ELSE q[1].s \o sep \o Join(Tail(q), sep)

RingConflictMessage(conflicts) ==
    "Ring slot conflict: Cannot equip both " \o Join(conflicts, " and ")
        \o " - only 2 ring slots available."

EndlessWalkMessage ==
    "Cannot use Endless Walk set (Traveler's Pledge + Compass Rose) with Focus and Restraint - both require ring slots."

RingSlots == {"leftFinger", "rightFinger", "ring1", "ring2"}

\* for (const x of v): the elements visited, or a TypeError when v is not iterable
Iterate(v) ==
    CASE v.t = "array" -> v
      [] v.t = "string" -> Arr([i \in 1..Len(v.s) |-> Str(SubSeq(v.s, i, i))])
      [] OTHER -> TypeError

\* the loop over recommendation.skills.active: the warnings pushed, or the
\* first error thrown
SkillWarnings(active, class) ==
    LET elems == Iterate(active)
    IN IF IsThrow(elems) THEN elems
       ELSE LET checks == [i \in DOMAIN elems.a |->
                             LET skill == Get(elems.a[i], "skill")
                             IN IF IsThrow(skill) THEN skill ELSE isPassiveSkill(class, skill)]
            IN IF AnyThrow(checks) THEN FirstThrow(checks)
               ELSE LET flagged == SelectSeq(elems.a,
                                       LAMBDA e : isPassiveSkill(class, Get(e, "skill")).b)
                    IN Arr([i \in DOMAIN flagged |->
                              Warning("skill_type_error",
                                      SkillTypeMessage(JSString(Get(flagged[i], "skill"))))])

\* recommendation.gear.items.filter(ring slot).map(i => i.item)
RingItems(items) ==
    IF ~IsArray(items) THEN TypeError
    ELSE IF \E i \in DOMAIN items.a : items.a[i].t = "null" THEN TypeError
    ELSE LET inRing == SelectSeq(items.a,
                           LAMBDA i : IsString(Get(i, "slot")) /\ Get(i, "slot").s \in RingSlots)
         IN Arr([k \in DOMAIN inRing |-> Get(inRing[k], "item")])

hasEndlessWalk_SetNameOnly(names) ==
    \E i \in DOMAIN names : includes(toLowerCase(names[i].s), "endless walk")

hasEndlessWalk(names) ==
    \E i \in DOMAIN names :
        \/ includes(toLowerCase(names[i].s), "traveler")
        \/ includes(toLowerCase(names[i].s), "compass rose")
        \/ includes(toLowerCase(names[i].s), "endless walk")

hasFocusRestraint(names) ==
    \E i \in DOMAIN names :
        \/ includes(toLowerCase(names[i].s), "focus")
        \/ includes(toLowerCase(names[i].s), "restraint")

\* the array of warnings, or the error thrown
validateResponse(rec, class) ==
    Bind2(SkillWarnings(Get(Get(rec, "skills"), "active"), class),
          RingItems(Get(Get(rec, "gear"), "items")), LAMBDA skillWarnings, ringItems :
    Bind(Get(Get(rec, "gear"), "sets").a, LAMBDA sets :
       IF IsThrow(skillWarnings) THEN skillWarnings
       ELSE IF IsThrow(ringItems) THEN ringItems
       ELSE Bind([i \in DOMAIN sets |-> Get(sets[i], "name")] \o ringItems.a,
                 LAMBDA allRingRelated :
            Bind(checkRingSlotConflicts(allRingRelated), LAMBDA conflicts :
               IF IsThrow(conflicts) THEN conflicts
               ELSE Arr(skillWarnings.a
                        \o (IF Truthy(conflicts)
                            THEN <<Warning("slot_conflict", RingConflictMessage(conflicts.a))>>
                            ELSE <<>>)
                        \o (IF hasEndlessWalk(allRingRelated) /\ hasFocusRestraint(allRingRelated)
                            THEN <<Warning("slot_conflict", EndlessWalkMessage)>>
                            ELSE <<>>))))))

-----------------------------------------------------------------------------
(* analyzeHero / analyzeHeroEnhanced from the producer's text on *)

\* AttachWarnings as it would be if validation repaired the recommendation:
\* the active entries flagged as passives are removed
AttachWarnings_Repairs(rec, class) ==
    Bind(validateResponse(rec, class), LAMBDA warnings :
        IF IsThrow(warnings) THEN warnings
        ELSE Spread(Obj(("skills" :>
                            Obj(("active" :>
                                   Arr(SelectSeq(Iterate(Get(Get(rec, "skills"), "active")).a,
                                          LAMBDA e : ~isPassiveSkill(class, Get(e, "skill")).b)))
                                @@ Get(rec, "skills").o))
                        @@ rec.o),
                    [validationWarnings |-> warnings]))

\* recommendation.validationWarnings = this.validateResponse(...)
AttachWarnings(rec, class) ==
    Bind(validateResponse(rec, class), LAMBDA warnings :
        IF IsThrow(warnings) THEN warnings
        ELSE Spread(rec, [validationWarnings |-> warnings]))

\* the recommendation returned, or the error thrown; metaBuild is Null when
\* no meta build matched
analyzeText(text, class, isEnhanced, metaBuild) ==
    Bind(IF isEnhanced THEN parseEnhancedResponse(text) ELSE parseResponse(text), LAMBDA rec :
    Bind(IF IsThrow(rec) THEN rec ELSE AttachWarnings(rec, class), LAMBDA validated :
       IF IsThrow(validated) \/ ~isEnhanced \/ ~Truthy(metaBuild) THEN validated
       ELSE Spread(validated, [metaBuildReference |-> metaBuild])))

-----------------------------------------------------------------------------
(* Inputs: the JSON documents and texts a producer can return *)

MaxBonuses == 2
MaxSkills == 2
MaxRingNames == 2

SeqsUpTo(S, n) == UNION {[1..k -> S] : k \in 0..n}

With(obj, key, v) == Obj((key :> v) @@ obj.o)
Without(obj, key) == Obj([x \in DOMAIN obj.o \ {key} |-> obj.o[x]])

\* values of every JSON type, right or wrong for the field that holds them
FieldValues ==
    {Null, Num(0), Num(7), Str(""), Str("text"), Bool(TRUE), EmptyObj, EmptyArr,
     Arr(<<Null>>)}

GoodDoc ==
    Obj([skills |->
            Obj([active |-> Arr(<<Obj([skill |-> Str("Bone Spear"),
                                       rune |-> Str("Crystallization"),
                                       reason |-> Str("main damage")])>>),
                 passive |-> Arr(<<Obj([skill |-> Str("Stand Alone"),
                                        reason |-> Str("armor")])>>)]),
         gear |->
            Obj([sets |-> Arr(<<Obj([name |-> Str("Grace of Inarius"), pieces |-> Num(6),
                                     reason |-> Str("core set")])>>),
                 items |-> Arr(<<Obj([slot |-> Str("mainHand"),
                                      item |-> Str("Scythe of the Cycle"),
                                      reason |-> Str("damage")])>>),
                 cubePowers |-> Obj([weapon |-> Str("Lost Time"),
                                     armor |-> Obj([name |-> Str("Aquila Cuirass"),
                                                    reason |-> Str("toughness")])])]),
         gems |-> Arr(<<Obj([name |-> Str("Bane of the Trapped"), priority |-> Num(1),
                             reason |-> Str("damage")])>>),
         playstyle |-> Str("Keep Bone Armor up"),
         farmingPriority |-> Arr(<<Str("Krysbin's Sentence")>>),
         summary |-> Str("Solid build"),
         projectedImprovements |->
            Obj([damage |-> Obj([current |-> Num(100), estimatedMultiplier |-> Str("2x"),
                                 rating |-> Str("major")]),
                 toughness |-> Obj([rating |-> Str("huge")])])])

TopLevelKeys ==
    {"skills", "gear", "gems", "playstyle", "farmingPriority", "summary",
     "projectedImprovements"}

BonusElements ==
    {Null, Num(7), Str("text"), EmptyObj,
     Obj([pieces |-> Num(2), bonus |-> Str("two piece bonus")]),
     Obj([pieces |-> Str("4"), bonus |-> Num(7)])}

SetBonusValues ==
    {Null, Str("text"), EmptyArr} \cup {Arr(q) : q \in SeqsUpTo(BonusElements, MaxBonuses)}

SetElements ==
    {Null, Num(7), Str("text"), EmptyObj, EmptyArr}
    \cup {Obj([name |-> n, pieces |-> cnt]) :
            n \in {Str("Grace of Inarius"), Str("Homemade Set"), Num(7), Str("constructor")},
            cnt \in {Num(6), Num(3), Str("6")}}
    \cup {Obj([name |-> n, pieces |-> Num(4), bonuses |-> b, reason |-> Str("why")]) :
            n \in {Str("Grace of Inarius"), Str("Homemade Set")}, b \in SetBonusValues}

\* the documents on which the normalizer is exercised
NormDocs ==
    {Null, Num(0), Num(7), Str("text"), Bool(TRUE), EmptyArr, Arr(<<Null>>), EmptyObj, GoodDoc}
    \cup {With(base, key, v) : base \in {EmptyObj, GoodDoc}, key \in TopLevelKeys, v \in FieldValues}
    \cup {Without(GoodDoc, key) : key \in TopLevelKeys}
    \cup {With(base, "skills", Obj(key :> v)) :
            base \in {EmptyObj, GoodDoc}, key \in {"active", "passive"}, v \in FieldValues}
    \cup {With(base, "gear", Obj(key :> v)) :
            base \in {EmptyObj, GoodDoc}, key \in {"sets", "items", "cubePowers"},
            v \in FieldValues}
    \cup {With(GoodDoc, "gear", Obj([sets |-> Arr(<<e>>)])) : e \in SetElements}
    \cup {With(GoodDoc, "gear",
                Obj([cubePowers |-> Obj([weapon |-> v, armor |-> Obj([name |-> v]),
                                         jewelry |-> Obj([reason |-> v])])])) :
            v \in FieldValues}
    \cup {With(GoodDoc, "summary", Str(t)) : t \in {"see ~~~ here", "~~~a~~~"}}

\* the ways a producer wraps (or fails to wrap) a document
Wrappings == {"bare", "padded", "fenced json", "fenced", "fenced prose", "fenced other tag",
              "unclosed fence"}

Wrap(how, doc) ==
    CASE how = "bare" -> doc
      [] how = "padded" -> <<Space>> \o doc \o <<Space>>
      [] how = "fenced json" -> <<Fence, JsonTag, Space>> \o doc \o <<Space, Fence>>
      [] how = "fenced" -> <<Fence, Space>> \o doc \o <<Space, Fence>>
      [] how = "fenced prose" ->
            <<Text("Here is the build:"), Space, Fence, JsonTag, Space>> \o doc
                \o <<Space, Fence, Space, Text("Good luck!")>>
      [] how = "fenced other tag" -> <<Fence, Text("javascript"), Space>> \o doc \o <<Space, Fence>>
      [] how = "unclosed fence" -> <<Fence, JsonTag, Space>> \o doc

\* texts that are no JSON at all
GarbageTexts ==
    {<<Text("not json at all")>>, <<>>, <<Space>>, <<Fence, JsonTag, Space, Fence>>,
     <<Text("I cannot help with that.")>>}

\* type FarmingMethod
FarmingMethods ==
    {"rift", "greater_rift", "bounty", "kadala", "cube_upgrade", "cube_reforge", "crafting",
     "world_drop"}

\* the fields of an item a producer can supply, each with a well-typed value
\* that differs from every table entry
SuppliedItem ==
    [slot |-> Str("waist"),
     methods |-> Arr(<<Str("bounty")>>),
     primaryMethod |-> Str("bounty"),
     estimatedTime |-> Str("long"),
     bloodShardCost |-> Num(1),
     deathsBreathCost |-> Num(2),
     forgottenSoulCost |-> Num(3),
     bountyMaterialsRequired |-> Bool(FALSE),
     craftingRecipeSource |-> Str("Act I cache"),
     dropLocations |-> Arr(<<Str("Act I")>>),
     notes |-> Str("mine")]

\* the item of an upgrade step: names in the table (exactly, ignoring case),
\* outside it, absent; no field, one field, every field supplied; values
\* outside the enumerations; and values that are no object
UpgradeItems ==
    LET names == {<<>>} \cup {[itemName |-> Str(n)] :
                                n \in {"Captain Crimson's Trimmings", "scythe of the cycle",
                                       "Homemade Ring", "constructor"}}
        supplied == {{}, DOMAIN SuppliedItem} \cup {{f} : f \in DOMAIN SuppliedItem}
    IN {Obj(name @@ [f \in fs |-> SuppliedItem[f]]) : name \in names, fs \in supplied}
       \cup {Obj(name @@ [primaryMethod |-> Str("magic"), methods |-> Arr(<<Str("magic")>>),
                          estimatedTime |-> Str("forever")]) : name \in names}
       \cup {Null, Num(7), Str("text")}

\* documents with upgrade steps, for the enhanced normalizer
UpgradeDocs ==
    {With(GoodDoc, "tieredUpgrades",
          Obj([quick |-> Arr(<<Obj([item |-> it, powerIncrease |-> Str(power)])>>)])) :
        it \in UpgradeItems, power \in {"major", "huge"}}
    \cup {With(GoodDoc, "tieredUpgrades",
               Obj([medium |-> Arr(<<Null, Obj([id |-> Str("m2"), item |-> it])>>),
                    long |-> Str("text")])) : it \in {Null, Obj([itemName |-> Str("Homemade Ring")])}}
    \cup {With(GoodDoc, "progressionPath",
               Obj([steps |-> Arr(<<Obj([item |-> it, powerIncrease |-> Num(7)])>>)])) :
            it \in {Obj([itemName |-> Str("Homemade Ring")]),
                    Obj([itemName |-> Str("Captain Crimson's Trimmings"),
                         bountyMaterialsRequired |-> Bool(FALSE)])}}
    \cup {With(GoodDoc, "tieredUpgrades",
               Obj([long |-> Arr(<<Obj([id |-> id, priority |-> priority]), Num(7),
                                   Obj([id |-> Str("l3")])>>)])) :
            id \in {Str("l1"), Str(""), Num(0), Num(5), EmptyArr},
            priority \in {Num(9), Str("1"), Null}}
    \cup {With(GoodDoc, "progressionPath",
               Obj([steps |-> Arr(<<Str("text"), Obj([id |-> Str("p2")])>>),
                    criticalPath |-> path])) :
            path \in {Arr(<<Str("p2"), Num(1), Null>>), Str("p2")}}
    \cup {With(GoodDoc, key, v) : key \in {"tieredUpgrades", "progressionPath"}, v \in FieldValues}

NormTexts ==
    {Wrap(how, Stringify(d)) : how \in Wrappings, d \in NormDocs}
    \cup {Stringify(d) : d \in UpgradeDocs}
    \cup GarbageTexts

\* hero.heroClass as the profile API and users of the service spell it
HeroClasses == {"necromancer", "Demon Hunter", "wizard", "druid", "constructor"}

\* entries of skills.active: passives of the necromancer in two spellings, an
\* active skill, a passive of another class, and malformed entries
ActiveEntries ==
    {Obj([skill |-> Str("Bone Prison"), rune |-> Str("X"), reason |-> Str("y")]),
     Obj([skill |-> Str("bone PRISON"), rune |-> Str(""), reason |-> Str("")]),
     Obj([skill |-> Str("Bone Spear"), rune |-> Str("Crystallization"), reason |-> Str("y")]),
     Obj([skill |-> Str("Blur"), rune |-> Str(""), reason |-> Str("")]),
     Obj([rune |-> Str("X")]),
     Null}

PassiveLists ==
    {<<>>,
     <<Obj([skill |-> Str("Bone Prison"), reason |-> Str("y")])>>,
     <<Obj([skill |-> Str("Bone Prison"), reason |-> Str("y")]),
       Obj([skill |-> Str("Bone Spear"), reason |-> Str("y")])>>}

SkillDocs ==
    {With(GoodDoc, "skills", Obj([active |-> a, passive |-> Arr(pv)])) :
        a \in {Arr(q) : q \in SeqsUpTo(ActiveEntries, MaxSkills)}
               \cup {Str("Blur"), Num(7), EmptyObj},
        pv \in PassiveLists}

RingSetNames ==
    {"Focus and Restraint", "Bastions of Will", "Endless Walk", "Grace of Inarius",
     "focus and restraint (rings)"}

RingItemEntries ==
    {Obj([slot |-> Str(sl), item |-> Str(it), reason |-> Str("y")]) :
        sl \in {"leftFinger", "neck"},
        it \in {"Focus", "The Compass Rose"}}
    \cup {Obj([slot |-> Str("rightFinger")]), Null}

RingDocs ==
    {With(GoodDoc, "gear",
          Obj([sets |-> Arr([i \in DOMAIN names |-> Obj([name |-> Str(names[i]),
                                                         pieces |-> Num(2)])]),
               items |-> Arr(its)])) :
        names \in SeqsUpTo(RingSetNames, MaxRingNames),
        its \in SeqsUpTo(RingItemEntries, 1)}

\* the calls on which the validator is exercised: the skill documents for a
\* hero of every class, the ring documents for a necromancer
ValidateInputs ==
    {<<Wrap("fenced json", Stringify(d)), c>> : d \in SkillDocs, c \in HeroClasses}
    \cup {<<Wrap("fenced json", Stringify(d)), "necromancer">> : d \in RingDocs}

NoRun == [op |-> "none", hero |-> 0, bypass |-> FALSE]

MaxRuns == 2

\* the heroes of the account: hero.heroId and hero.heroClass
Heroes == {[heroId |-> 1, heroClass |-> "necromancer"], [heroId |-> 2, heroClass |-> "wizard"]}

\* a recommendation on which validateResponse throws
BrokenSkillsDoc == With(GoodDoc, "skills", Obj([active |-> Arr(<<Obj([rune |-> Str("X")])>>)]))

EnhancedDoc ==
    With(With(GoodDoc, "summary", Str("Upgrade path")), "tieredUpgrades",
         Obj([quick |-> Arr(<<Obj([id |-> Str("q1"),
                                   item |-> Obj([itemName |-> Str("Captain Crimson's Trimmings")]),
                                   powerIncrease |-> Str("major")])>>)]))

\* what the producer call ends with: a rejected fetch, or a reply with a
\* text (no JSON, a fenced document, a document with tiered upgrades, a
\* document on which validateResponse throws)
Responses ==
    <<[kind |-> "network"],
      [kind |-> "text", text |-> <<Text("not json at all")>>],
      [kind |-> "text", text |-> Wrap("fenced json", Stringify(GoodDoc))],
      [kind |-> "text", text |-> Stringify(EnhancedDoc)],
      [kind |-> "text", text |-> Stringify(BrokenSkillsDoc)]>>

\* what findMatchingMetaBuild resolves to: the tier list that was fetched has
\* a build for the necromancer and none for the wizard (null: no build matched)
NecromancerBuild == Obj([buildName |-> Str("Bone Spear Necromancer"), tier |-> Str("S")])
MetaBuilds == {Null, NecromancerBuild}
MetaBuildsFor(hero) ==
    IF hero.heroClass = "necromancer" THEN {NecromancerBuild} ELSE {Null}

-----------------------------------------------------------------------------
(* One call of analyzeHero / analyzeHeroEnhanced, from the arrival of the   *)
(* producer's text: parse, then validate.                                   *)

InitStore ==
    /\ recommendation = Null
    /\ isAnalyzing = FALSE
    /\ error = Null
    /\ analyzedHeroId = Null
    /\ isEnhancedAnalysis = FALSE
    /\ cache = <<>>
    /\ useMaxrollData = TRUE
    /\ claudeApiKey = ""
    /\ runs = {}
    /\ nextSeq = 0
    /\ recWriter = 0
    /\ cacheWriter = <<>>
    /\ last = NoRun
    /\ currentHero = Null
    /\ reports = <<>>

InitCall(inputs) ==
    /\ \E input \in inputs : content = input[1] /\ heroClass = input[2]
    /\ enhanced \in BOOLEAN
    /\ pc = "start"
    /\ parsed = Undefined
    /\ outcome = Undefined

\* const recommendation = this.parseResponse(content)
ParseBasic ==
    /\ pc = "start" /\ ~enhanced
    /\ parsed' = parseResponse(content)
    /\ pc' = IF IsThrow(parsed') THEN "failed" ELSE "parsed"
    /\ outcome' = IF IsThrow(parsed') THEN parsed' ELSE outcome
    /\ UNCHANGED <<content, heroClass, enhanced>>
    /\ UNCHANGED <<storeVars, viewVars>>

\* const recommendation = this.parseEnhancedResponse(content)
ParseEnhanced ==
    /\ pc = "start" /\ enhanced
    /\ parsed' = parseEnhancedResponse(content)
    /\ pc' = IF IsThrow(parsed') THEN "failed" ELSE "parsed"
    /\ outcome' = IF IsThrow(parsed') THEN parsed' ELSE outcome
    /\ UNCHANGED <<content, heroClass, enhanced>>
    /\ UNCHANGED <<storeVars, viewVars>>

\* recommendation.validationWarnings = this.validateResponse(recommendation, hero.heroClass)
Validate ==
    /\ pc = "parsed"
    /\ outcome' = AttachWarnings(parsed, heroClass)
    /\ pc' = IF IsThrow(outcome') THEN "failed" ELSE "done"
    /\ UNCHANGED <<content, heroClass, enhanced, parsed>>
    /\ UNCHANGED <<storeVars, viewVars>>

NextCall == ParseBasic \/ ParseEnhanced \/ Validate

-----------------------------------------------------------------------------
(* The recommendation store (useClaudeAnalysisStore) *)

\* analyzeHero / analyzeHeroEnhanced from the settlement of fetch on: the
\* recommendation returned or the error thrown
ResponseOutcome(resp, class, isEnhanced, metaBuild) ==
    CASE resp.kind = "network" -> Throw("Failed to fetch")
      [] resp.kind = "http" ->
            IF resp.status = 401
            THEN Throw("Invalid Claude API key. Please check your settings.")
            ELSE IF resp.status = 429
            THEN Throw("Rate limited. Please try again in a moment.")
            ELSE Throw("Claude API error: " \o ToString(resp.status))
      [] resp.kind = "empty" -> Throw("No response from Claude")
      [] OTHER -> analyzeText(resp.text, class, isEnhanced, metaBuild)

\* ResponseOutcome for every response, hero, mode and meta build
Outcomes ==
    [k \in DOMAIN Responses, hero \in Heroes, isEnhanced \in BOOLEAN, metaBuild \in MetaBuilds |->
        ResponseOutcome(Responses[k], hero.heroClass, isEnhanced, metaBuild)]

NoApiKeyMsg == "Claude API key not configured. Add it in Settings."

\* 'tieredUpgrades' in recommendation.value
HasTieredUpgrades(rec) == rec.t = "object" /\ "tieredUpgrades" \in DOMAIN rec.o

\* the catch block as it would be if a failed run also emptied the cache
CatchEffects_ClearsCache(msg) ==
    /\ error' = Str(msg)
    /\ recommendation' = Null
    /\ isEnhancedAnalysis' = FALSE
    /\ isAnalyzing' = FALSE
    /\ recWriter' = 0
    /\ cache' = <<>>
    /\ cacheWriter' = <<>>
    /\ UNCHANGED analyzedHeroId

\* the catch and finally blocks of generateBuildSuggestion
CatchEffects(msg) ==
    /\ error' = Str(msg)
    /\ recommendation' = Null
    /\ isEnhancedAnalysis' = FALSE
    /\ isAnalyzing' = FALSE
    /\ recWriter' = 0
    /\ UNCHANGED <<analyzedHeroId, cache, cacheWriter>>

\* the cache branch as it would be if it went through the finally block
CacheHit_ResetsAnalyzing(hero) ==
    /\ recommendation' = cache[hero.heroId]
    /\ analyzedHeroId' = Num(hero.heroId)
    /\ isEnhancedAnalysis' = HasTieredUpgrades(cache[hero.heroId])
    /\ error' = Null
    /\ isAnalyzing' = FALSE
    /\ recWriter' = cacheWriter[hero.heroId]
    /\ last' = [op |-> "cacheHit", hero |-> hero.heroId, bypass |-> FALSE]
    /\ UNCHANGED <<cache, cacheWriter, runs, nextSeq>>

\* the cache branch of generateBuildSuggestion
CacheHit(hero) ==
    /\ recommendation' = cache[hero.heroId]
    /\ analyzedHeroId' = Num(hero.heroId)
    /\ isEnhancedAnalysis' = HasTieredUpgrades(cache[hero.heroId])
    /\ error' = Null
    /\ recWriter' = cacheWriter[hero.heroId]
    /\ last' = [op |-> "cacheHit", hero |-> hero.heroId, bypass |-> FALSE]
    /\ UNCHANGED <<isAnalyzing, cache, cacheWriter, runs, nextSeq>>

\* generateBuildSuggestion up to its first suspension.  With enhanced
\* analysis the call suspends on findMatchingMetaBuild; otherwise analyzeHero
\* runs up to fetch, or rejects at once when no API key is configured.
StartRun(hero, forceRefresh) ==
    LET seq == nextSeq + 1
        \* bypass: forceRefresh made the call skip an entry the cache holds
        bypass == forceRefresh /\ hero.heroId \in DOMAIN cache
        run == [seq |-> seq, hero |-> hero, bypass |-> bypass,
                enhanced |-> useMaxrollData, metaBuild |-> Null,
                phase |-> IF useMaxrollData THEN "meta" ELSE "fetch"]
    IN /\ nextSeq < MaxRuns
       /\ nextSeq' = seq
       /\ IF ~useMaxrollData /\ claudeApiKey = ""
          THEN /\ CatchEffects(NoApiKeyMsg)
               /\ runs' = runs
               /\ last' = [op |-> "fail", hero |-> hero.heroId, bypass |-> bypass]
          ELSE /\ isAnalyzing' = TRUE
               /\ error' = Null
               /\ runs' = runs \cup {run}
               /\ last' = [op |-> "start", hero |-> hero.heroId, bypass |-> bypass]
               /\ UNCHANGED <<recommendation, analyzedHeroId, isEnhancedAnalysis, cache,
                              recWriter, cacheWriter>>

generateBuildSuggestion(hero, forceRefresh) ==
    /\ IF ~forceRefresh /\ hero.heroId \in DOMAIN cache
       THEN CacheHit(hero)
       ELSE StartRun(hero, forceRefresh)
    /\ UNCHANGED <<useMaxrollData, claudeApiKey>>
    /\ UNCHANGED <<callVars, viewVars>>

\* BuildAdvisorView: the Analyze / Re-analyze button and the Try Again button
\* of the error state, for the hero that is loaded.  The buttons exist when
\* an API key is configured and are disabled or hidden while a run is
\* analyzing; forceRefresh is claudeStore.hasRecommendation.
handleAnalyze(hero) ==
    /\ claudeApiKey # ""
    /\ ~isAnalyzing
    /\ generateBuildSuggestion(hero, recommendation # Null)

\* findMatchingMetaBuild resolves and analyzeHeroEnhanced runs up to fetch,
\* or rejects at once when no API key is configured
MetaBuildResolved(run, metaBuild) ==
    /\ run \in runs /\ run.phase = "meta"
    /\ IF claudeApiKey = ""
       THEN /\ CatchEffects(NoApiKeyMsg)
            /\ runs' = runs \ {run}
            /\ last' = [op |-> "fail", hero |-> run.hero.heroId, bypass |-> run.bypass]
       ELSE /\ runs' = (runs \ {run}) \cup {[run EXCEPT !.phase = "fetch",
                                                        !.metaBuild = metaBuild]}
            /\ last' = [op |-> "fetch", hero |-> run.hero.heroId, bypass |-> run.bypass]
            /\ UNCHANGED <<recommendation, isAnalyzing, error, analyzedHeroId,
                           isEnhancedAnalysis, cache, recWriter, cacheWriter>>
    /\ UNCHANGED <<useMaxrollData, claudeApiKey, nextSeq>>
    /\ UNCHANGED <<callVars, viewVars>>

\* the success path as it would be if it kept an entry the cache already holds
SuccessEffects_KeepsEntry(run, result) ==
    /\ recommendation' = result
    /\ isEnhancedAnalysis' = run.enhanced
    /\ analyzedHeroId' = Num(run.hero.heroId)
    /\ cache' = cache @@ (run.hero.heroId :> result)
    /\ isAnalyzing' = FALSE
    /\ recWriter' = run.seq
    /\ cacheWriter' = cacheWriter @@ (run.hero.heroId :> run.seq)
    /\ UNCHANGED error

\* the assignments after the await of analyzeHero / analyzeHeroEnhanced
SuccessEffects(run, result) ==
    /\ recommendation' = result
    /\ isEnhancedAnalysis' = run.enhanced
    /\ analyzedHeroId' = Num(run.hero.heroId)
    /\ cache' = (run.hero.heroId :> result) @@ cache
    /\ isAnalyzing' = FALSE
    /\ recWriter' = run.seq
    /\ cacheWriter' = (run.hero.heroId :> run.seq) @@ cacheWriter
    /\ UNCHANGED error

\* the producer call of a run settles with Responses[k] and the suspended
\* generateBuildSuggestion resumes: try block to its end, or catch, then finally
Resume(run, result) ==
    /\ run \in runs /\ run.phase = "fetch"
    /\ runs' = runs \ {run}
    /\ IF IsThrow(result)
       THEN /\ CatchEffects(result.msg)
            /\ last' = [op |-> "fail", hero |-> run.hero.heroId, bypass |-> run.bypass]
       ELSE /\ SuccessEffects(run, result)
            /\ last' = [op |-> "succeed", hero |-> run.hero.heroId, bypass |-> run.bypass]
    /\ UNCHANGED <<useMaxrollData, claudeApiKey, nextSeq>>
    /\ UNCHANGED <<callVars, viewVars>>

RunSettles(run, k) == Resume(run, Outcomes[k, run.hero, run.enhanced, run.metaBuild])

ClearRecommendationEffects ==
    /\ recommendation' = Null
    /\ analyzedHeroId' = Null
    /\ error' = Null
    /\ recWriter' = 0

clearRecommendation ==
    /\ ClearRecommendationEffects
    /\ last' = [op |-> "clearRecommendation", hero |-> 0, bypass |-> FALSE]
    /\ UNCHANGED <<isAnalyzing, isEnhancedAnalysis, cache, cacheWriter, runs, nextSeq,
                   useMaxrollData, claudeApiKey>>
    /\ UNCHANGED <<callVars, viewVars>>

clearCache ==
    /\ cache' = <<>>
    /\ cacheWriter' = <<>>
    /\ ClearRecommendationEffects
    /\ last' = [op |-> "clearCache", hero |-> 0, bypass |-> FALSE]
    /\ UNCHANGED <<isAnalyzing, isEnhancedAnalysis, runs, nextSeq, useMaxrollData,
                   claudeApiKey>>
    /\ UNCHANGED <<callVars, viewVars>>

\* invalidateHeroCache as it would be without the test of analyzedHeroId
invalidateHeroCache_KeepsDisplayed(id) ==
    /\ cache' = [h \in DOMAIN cache \ {id} |-> cache[h]]
    /\ cacheWriter' = [h \in DOMAIN cacheWriter \ {id} |-> cacheWriter[h]]
    /\ last' = [op |-> "invalidateHeroCache", hero |-> id, bypass |-> FALSE]
    /\ UNCHANGED <<recommendation, analyzedHeroId, error, recWriter, isAnalyzing,
                   isEnhancedAnalysis, runs, nextSeq, useMaxrollData, claudeApiKey>>
    /\ UNCHANGED <<callVars, viewVars>>

invalidateHeroCache(id) ==
    /\ cache' = [h \in DOMAIN cache \ {id} |-> cache[h]]
    /\ cacheWriter' = [h \in DOMAIN cacheWriter \ {id} |-> cacheWriter[h]]
    /\ IF analyzedHeroId = Num(id)
       THEN ClearRecommendationEffects
       ELSE UNCHANGED <<recommendation, analyzedHeroId, error, recWriter>>
    /\ last' = [op |-> "invalidateHeroCache", hero |-> id, bypass |-> FALSE]
    /\ UNCHANGED <<isAnalyzing, isEnhancedAnalysis, runs, nextSeq, useMaxrollData,
                   claudeApiKey>>
    /\ UNCHANGED <<callVars, viewVars>>

\* the settings form saves useMaxrollData / claudeApiKey
updateSettings(maxroll, key) ==
    /\ useMaxrollData' = maxroll
    /\ claudeApiKey' = key
    /\ <<maxroll, key>> # <<useMaxrollData, claudeApiKey>>
    /\ last' = [op |-> "updateSettings", hero |-> 0, bypass |-> FALSE]
    /\ UNCHANGED <<recommendation, isAnalyzing, error, analyzedHeroId, isEnhancedAnalysis,
                   cache, runs, nextSeq, recWriter, cacheWriter>>
    /\ UNCHANGED <<callVars, viewVars>>

MaxReports == 1

\* heroStore.loadHero: getFullHero resolves and currentHero becomes the hero
\* fetched.  The recommendation store is not told.
loadHero(hero) ==
    /\ currentHero' = hero
    /\ currentHero # hero
    /\ UNCHANGED reports
    /\ UNCHANGED <<storeVars, callVars>>

\* savedReportsStore.saveReport: the report built from its arguments is
\* pushed on reports (heroName and paragonLevel are not part of a hero here)
saveReport(heroId, heroCls, rec) ==
    reports' = Append(reports, [heroId |-> heroId, heroClass |-> heroCls,
                                recommendation |-> rec])

\* BuildAdvisorView: the Save Report button.  It is rendered for a loaded
\* hero with an API key configured, outside the loading and error states,
\* when the live recommendation is displayed.
handleSaveReport ==
    /\ claudeApiKey # "" /\ ~isAnalyzing /\ error = Null
    /\ currentHero # Null /\ recommendation # Null
    /\ Len(reports) < MaxReports
    /\ saveReport(currentHero.heroId, currentHero.heroClass, recommendation)
    /\ UNCHANGED currentHero
    /\ UNCHANGED <<storeVars, callVars>>

Init ==
    /\ InitStore
    /\ content = <<>> /\ heroClass = "" /\ enhanced = FALSE
    /\ pc = "idle" /\ parsed = Undefined /\ outcome = Undefined

Next ==
    \/ \E hero \in Heroes, forceRefresh \in BOOLEAN : generateBuildSuggestion(hero, forceRefresh)
    \/ \E hero \in Heroes : handleAnalyze(hero)
    \/ \E run \in runs : \E metaBuild \in MetaBuildsFor(run.hero) : MetaBuildResolved(run, metaBuild)
    \/ \E run \in runs, k \in DOMAIN Responses : RunSettles(run, k)
    \/ clearRecommendation
    \/ clearCache
    \/ \E hero \in Heroes : invalidateHeroCache(hero.heroId)
    \/ \E maxroll \in BOOLEAN, key \in {"", "sk-ant-key"} : updateSettings(maxroll, key)

Spec == Init /\ [][Next]_vars

\* the application driven through its views: DashboardView loads heroes,
\* BuildAdvisorView analyzes the loaded hero and saves reports, the settings
\* form changes the settings
NextView ==
    \/ \E hero \in Heroes : loadHero(hero)
    \/ \E hero \in Heroes : currentHero = hero /\ handleAnalyze(hero)
    \/ \E run \in runs : \E metaBuild \in MetaBuildsFor(run.hero) : MetaBuildResolved(run, metaBuild)
    \/ \E run \in runs, k \in DOMAIN Responses : RunSettles(run, k)
    \/ handleSaveReport
    \/ \E maxroll \in BOOLEAN, key \in {"", "sk-ant-key"} : updateSettings(maxroll, key)

SpecView == Init /\ [][NextView]_vars

InitNormalize == InitStore /\ InitCall(NormTexts \X {"necromancer"})
SpecNormalize == InitNormalize /\ [][NextCall]_vars

InitValidate == InitStore /\ InitCall(ValidateInputs)
SpecValidate == InitValidate /\ [][NextCall]_vars

-----------------------------------------------------------------------------
(* Properties of the normalizer *)

\* the payload of the text, after fence stripping, is parseable JSON
Parseable == ~IsThrow(JSONparse(ExtractJsonStr(content)))

\* the parse step of the call has run
ParseDone == pc # "start"

\* C1: normalize has one failure mode only: whenever the payload (after
\* fence stripping) is parseable JSON, whatever its shape, normalize
\* returns a recommendation and raises no error.
C1_OnlyParseFailure == (ParseDone /\ Parseable) => ~IsThrow(parsed)

ListFieldsOf(rec) ==
    <<Get(Get(rec, "skills"), "active"), Get(Get(rec, "skills"), "passive"),
      Get(Get(rec, "gear"), "sets"), Get(Get(rec, "gear"), "items"),
      Get(rec, "gems"), Get(rec, "farmingPriority")>>

\* C2: in every recommendation normalize returns, skills.active,
\* skills.passive, gear.sets, gear.items, gems and farmingPriority are lists
\* and playstyle and summary are strings, whatever the parsed JSON held.
C2_ListsAndStrings ==
    (ParseDone /\ ~IsThrow(parsed)) =>
        /\ \A i \in DOMAIN ListFieldsOf(parsed) : IsArray(ListFieldsOf(parsed)[i])
        /\ IsString(Get(parsed, "playstyle"))
        /\ IsString(Get(parsed, "summary"))

\* C3: when the payload (after fence stripping) is not parseable JSON, the
\* basic and the enhanced normalize both fail with the parse error and
\* return no recommendation.
C3_UnparseableFails ==
    (ParseDone /\ ~Parseable) =>
        /\ pc = "failed"
        /\ IsThrow(parsed) /\ parsed.msg = ParseErrorMsg
        /\ outcome = parsed

C3_Witness == enhanced /\ pc = "failed" /\ ~Parseable /\ Len(content) > 0


\* C14: normalize of a JSON document wrapped in a fenced code block, with or
\* without the json tag, gives what normalize of the same document
\* unwrapped gives, also when strings of the document contain a fence.
C14_FenceTransparent ==
    LET n == Len(content)
        IsDocument(t) == Len(t) >= 1 /\ t[1].k = "json" /\ t = Stringify(t[1].v)
        SameAsUnwrapped(t) ==
            IsDocument(t) => parsed = IF enhanced THEN parseEnhancedResponse(t)
                                      ELSE parseResponse(t)
    IN (/\ ParseDone /\ n >= 5
        /\ content[1] = Fence /\ content[n] = Fence /\ content[n - 1] = Space) =>
          /\ (content[2] = JsonTag /\ content[3] = Space)
                => SameAsUnwrapped(SubSeq(content, 4, n - 2))
          /\ content[2] = Space => SameAsUnwrapped(SubSeq(content, 3, n - 2))


\* gear.sets of the document the producer sent, when it is a list
SuppliedSets ==
    LET sets == GetOpt(Get(JSONparse(ExtractJsonStr(content)), "gear"), "sets")
    IN IF IsArray(sets) THEN sets.a ELSE <<>>

\* C15: for each recommended set, a non-empty bonus list supplied by the
\* producer is kept tier by tier in the supplied order; otherwise, when the
\* set name is in the reference table, the bonuses are exactly the table's
\* tiers whose piece count is at most the recommended piece count, in
\* ascending piece order.
C15_SetBonuses ==
    (ParseDone /\ ~IsThrow(parsed)) =>
        \A i \in DOMAIN SuppliedSets :
            LET set == SuppliedSets[i]
                out == Get(Get(parsed, "gear"), "sets").a[i]
                given == GetOpt(set, "bonuses")
                bonuses == Get(out, "bonuses")
                WellFormed(b) == /\ b.t = "object" /\ IsNumber(Get(b, "pieces"))
                                 /\ IsString(Get(b, "bonus"))
            IN IF IsArray(given) /\ Len(given.a) > 0
               THEN /\ IsArray(bonuses) /\ Len(bonuses.a) = Len(given.a)
                    /\ \A j \in DOMAIN given.a :
                         WellFormed(given.a[j])
                           => /\ Get(bonuses.a[j], "pieces") = Get(given.a[j], "pieces")
                              /\ Get(bonuses.a[j], "bonus") = Get(given.a[j], "bonus")
               ELSE (set.t = "object" /\ IsString(Get(set, "name"))
                     /\ Get(set, "name").s \in DOMAIN SET_BONUSES)
                    => LET table == SET_BONUSES[Get(set, "name").s]
                           count == Get(out, "pieces").n
                       IN /\ IsArray(bonuses)
                          /\ {Get(bonuses.a[j], "pieces").n : j \in DOMAIN bonuses.a}
                               = {tp \in DOMAIN table : tp <= count}
                          /\ \A j \in DOMAIN bonuses.a :
                               /\ Get(bonuses.a[j], "bonus")
                                    = Str(table[Get(bonuses.a[j], "pieces").n])
                               /\ \A k \in DOMAIN bonuses.a :
                                    j < k => Get(bonuses.a[j], "pieces").n
                                               < Get(bonuses.a[k], "pieces").n

\* a six-piece set named without bonuses gets its three tiers from the table
C15_Witness ==
    /\ ParseDone /\ ~IsThrow(parsed)
    /\ Len(SuppliedSets) = 1
    /\ Get(SuppliedSets[1], "name") = Str("Grace of Inarius")
    /\ Get(SuppliedSets[1], "pieces") = Num(6)
    /\ Get(SuppliedSets[1], "bonuses") = Undefined
    /\ Len(Get(Get(Get(parsed, "gear"), "sets").a[1], "bonuses").a) = 3


\* C16: whatever gear.cubePowers holds, the result has exactly the slots
\* weapon, armor and jewelry, each a pair of strings name and reason: a
\* string slot gives that name with an empty reason, an object slot gives
\* its name and its reason with the empty string for a missing one, and any
\* other or missing slot gives two empty strings.
C16_CubePowers ==
    (ParseDone /\ ~IsThrow(parsed)) =>
        LET given == GetOpt(Get(JSONparse(ExtractJsonStr(content)), "gear"), "cubePowers")
            cube == Get(Get(parsed, "gear"), "cubePowers")
        IN /\ cube.t = "object" /\ DOMAIN cube.o = {"weapon", "armor", "jewelry"}
           /\ \A slot \in DOMAIN cube.o :
                LET v == IF given.t = "object" THEN Get(given, slot) ELSE Undefined
                    out == cube.o[slot]
                    Kept(field) ==
                        /\ IsString(Get(v, field)) => Get(out, field) = Get(v, field)
                        /\ Get(v, field) = Undefined => Get(out, field) = Str("")
                IN /\ out.t = "object" /\ DOMAIN out.o = {"name", "reason"}
                   /\ IsString(out.o["name"]) /\ IsString(out.o["reason"])
                   /\ IsString(v) => out = Obj([name |-> v, reason |-> Str("")])
                   /\ v.t = "object" => Kept("name") /\ Kept("reason")
                   /\ v.t \notin {"string", "object"} => out = EmptyCubePower

\* a string slot, an object slot without reason and one without name
C16_Witness ==
    /\ ParseDone /\ ~IsThrow(parsed)
    /\ Get(Get(parsed, "gear"), "cubePowers")
         = Obj([weapon |-> Obj([name |-> Str("text"), reason |-> Str("")]),
                armor |-> Obj([name |-> Str("text"), reason |-> Str("")]),
                jewelry |-> Obj([name |-> Str(""), reason |-> Str("text")])])


\* the upgrade steps of an enhanced result, each with the step the producer
\* sent at that place: tieredUpgrades.quick / medium / long and
\* progressionPath.steps
UpgradeStepPairs ==
    IF ~(ParseDone /\ enhanced) \/ IsThrow(parsed) THEN {}
    ELSE LET json == JSONparse(ExtractJsonStr(content))
             Pairs(in, out) ==
                 IF IsArray(in) /\ IsArray(out) /\ Len(in.a) = Len(out.a)
                 THEN {<<in.a[i], out.a[i]>> : i \in DOMAIN in.a} ELSE {}
         IN UNION {Pairs(Get(Get(json, "tieredUpgrades"), tier),
                         Get(Get(parsed, "tieredUpgrades"), tier)) : tier \in DifficultyTiers}
            \cup Pairs(Get(Get(json, "progressionPath"), "steps"),
                       Get(Get(parsed, "progressionPath"), "steps"))

\* C17: every enum-valued field of a normalized result holds a member of
\* its allowed set: each stat projection's rating and each upgrade step's
\* powerIncrease is minor, moderate, major or transformative, each item's
\* estimatedTime is quick, medium or long, each item's primaryMethod and
\* every element of its methods is a farming method; an unrecognized stat
\* rating becomes minor.
C17_EnumFields ==
    (ParseDone /\ ~IsThrow(parsed)) =>
        LET given == Get(JSONparse(ExtractJsonStr(content)), "projectedImprovements")
            projections == Get(parsed, "projectedImprovements")
        IN /\ projections.t = "object" =>
                \A stat \in {"damage", "toughness", "recovery", "life"} :
                    LET rating == Get(Get(projections, stat), "rating")
                        sent == Get(Get(given, stat), "rating")
                    IN /\ IsString(rating) /\ rating.s \in StatRatings
                       /\ ~(IsString(sent) /\ sent.s \in StatRatings) => rating = Str("minor")
           /\ \A pair \in UpgradeStepPairs :
                LET step == pair[2]
                    item == Get(step, "item")
                IN /\ IsString(Get(step, "powerIncrease"))
                   /\ Get(step, "powerIncrease").s \in StatRatings
                   /\ IsString(Get(item, "estimatedTime"))
                   /\ Get(item, "estimatedTime").s \in DifficultyTiers
                   /\ IsString(Get(item, "primaryMethod"))
                   /\ Get(item, "primaryMethod").s \in FarmingMethods
                   /\ IsArray(Get(item, "methods"))
                   /\ \A m \in Range(Get(item, "methods").a) :
                        IsString(m) /\ m.s \in FarmingMethods


\* C18: for an upgrade step whose item name is a key of the reference table,
\* exactly or ignoring case, every field the producer supplied (an explicit
\* false for bountyMaterialsRequired included) is kept as supplied, and a
\* field the producer omitted has the value of the table entry.  The
\* supplied values are the well-typed ones of SuppliedItem.
C18_SuppliedFieldsKept ==
    \A pair \in UpgradeStepPairs :
        LET sent == Get(pair[1], "item")
            item == Get(pair[2], "item")
            keys == IF sent.t = "object" /\ IsString(Get(sent, "itemName"))
                    THEN ItemKeysIgnoringCase(toLowerCase(Get(sent, "itemName").s))
                    ELSE {}
        IN \A key \in keys :
             \A field \in DOMAIN SuppliedItem :
                 /\ Get(sent, field) = SuppliedItem[field] => Get(item, field) = Get(sent, field)
                 /\ (Get(sent, field) = Undefined /\ field \in DOMAIN ITEM_ACQUISITION[key].o)
                       => Get(item, field) = ITEM_ACQUISITION[key].o[field]


\* C19: an upgrade step whose item name is not in the reference table, not
\* even ignoring case, never makes normalization fail, and the farming
\* fields the producer omitted get the world-drop fallback: methods is
\* [world_drop], primaryMethod is world_drop, and notes is a text.
C19_UnknownItemFallback ==
    (ParseDone /\ enhanced /\ Parseable
     /\ JSONparse(ExtractJsonStr(content)) \in UpgradeDocs) =>
        /\ ~IsThrow(parsed)
        /\ \A pair \in UpgradeStepPairs :
             LET sent == Get(pair[1], "item")
                 item == Get(pair[2], "item")
             IN (/\ sent.t = "object" /\ IsString(Get(sent, "itemName"))
                 /\ ItemKeysIgnoringCase(toLowerCase(Get(sent, "itemName").s)) = {})
                => /\ Get(sent, "methods") = Undefined
                        => Get(item, "methods") = Arr(<<Str("world_drop")>>)
                   /\ Get(sent, "primaryMethod") = Undefined
                        => Get(item, "primaryMethod") = Str("world_drop")
                   /\ Get(sent, "notes") = Undefined
                        => IsString(Get(item, "notes")) /\ Get(item, "notes").s # ""

-----------------------------------------------------------------------------
(* Properties of the validator *)

\* C8: validate never throws: once the response has parsed, the call
\* completes with warnings attached, for every recommendation normalize
\* can return and every hero class.
C8_ValidateNeverThrows == (pc = "failed") => IsThrow(parsed)

WarningsOfType(rec, type) ==
    SelectSeq(Get(rec, "validationWarnings").a, LAMBDA w : Get(w, "type") = Str(type))

\* the table key a hero class stands for
ClassKey(class) == replace(toLowerCase(class), " ", "-")

\* name is, ignoring case, a passive of the class in the reference table
NamesPassiveOf(class, name) ==
    /\ ClassKey(class) \in DOMAIN CLASS_PASSIVES
    /\ \E p \in Range(CLASS_PASSIVES[ClassKey(class)]) : toLowerCase(p) = toLowerCase(name)

\* the entries of the active list that name a passive of the class
MisplacedPassives(rec, class) ==
    LET active == Get(Get(rec, "skills"), "active")
    IN IF ~IsArray(active) THEN <<>>
       ELSE SelectSeq(active.a, LAMBDA e : /\ e.t = "object"
                                           /\ IsString(Get(e, "skill"))
                                           /\ NamesPassiveOf(class, Get(e, "skill").s))

\* C9: the warnings validate returns hold exactly one skill_type_error
\* (severity error, message naming the skill) for each active-skill entry
\* whose name is, ignoring case, a passive of the hero's class, in order,
\* and none for passive-list entries or other active entries.
C9_SkillTypeErrors ==
    (pc = "done") =>
        LET flagged == WarningsOfType(outcome, "skill_type_error")
            expected == MisplacedPassives(parsed, heroClass)
        IN /\ Len(flagged) = Len(expected)
           /\ \A i \in DOMAIN flagged :
                /\ Get(flagged[i], "severity") = Str("error")
                /\ Get(flagged[i], "message")
                     = Str(SkillTypeMessage(Get(expected[i], "skill").s))

C9_Witness ==
    /\ pc = "done"
    /\ Len(MisplacedPassives(parsed, heroClass)) = 1
    /\ Len(Get(Get(parsed, "skills"), "active").a) = 2
    /\ Get(MisplacedPassives(parsed, heroClass)[1], "skill") = Str("bone PRISON")
    /\ Len(Get(Get(parsed, "skills"), "passive").a) > 0

\* the names the ring rules look at: set names, then ring-slot item names
RingCandidates(rec) ==
    LET sets == Get(Get(rec, "gear"), "sets").a
        items == Get(Get(rec, "gear"), "items")
        ringItems == IF IsArray(items)
                     THEN SelectSeq(items.a, LAMBDA i : /\ i.t = "object"
                                                        /\ Get(i, "slot").t = "string"
                                                        /\ Get(i, "slot").s \in RingSlots
                                                        /\ IsString(Get(i, "item")))
                     ELSE <<>>
    IN [i \in DOMAIN sets |-> Get(sets[i], "name").s]
       \o [i \in DOMAIN ringItems |-> Get(ringItems[i], "item").s]

\* the jewelry sets whose definition occupies both ring slots
TwoRingSets ==
    {n \in DOMAIN JEWELRY_SETS :
        Range(JEWELRY_SETS[n].slots) = {"leftFinger", "rightFinger"}}

\* the two-ring sets the recommendation mentions
TwoRingSetsIn(rec) ==
    {n \in TwoRingSets :
        \E i \in DOMAIN RingCandidates(rec) :
            includes(toLowerCase(RingCandidates(rec)[i]), toLowerCase(n))}

\* C10: validate emits a slot_conflict warning whenever the recommendation
\* includes two distinct two-ring-slot jewelry sets, and none when it
\* includes only one such set (and nothing of the Endless Walk archetype),
\* however often and wherever that one set is mentioned.
C10_RingConflict ==
    (pc = "done") =>
        /\ Cardinality(TwoRingSetsIn(parsed)) >= 2
              => Len(WarningsOfType(outcome, "slot_conflict")) > 0
        /\ (/\ Cardinality(TwoRingSetsIn(parsed)) = 1
            /\ ~hasEndlessWalk([i \in DOMAIN RingCandidates(parsed) |->
                                   Str(RingCandidates(parsed)[i])]))
              => Len(WarningsOfType(outcome, "slot_conflict")) = 0


\* C11: the generic ring-set rule looks at every recommended set name and
\* every recommended ring-slot item, and emits its warning (naming the
\* matching candidates) exactly when more than one candidate matches a
\* jewelry set whose definition occupies two ring slots; Endless Walk
\* (amulet and one ring) is not counted.
C11_GenericRingRule ==
    (pc = "done") =>
        LET generic == SelectSeq(WarningsOfType(outcome, "slot_conflict"),
                                 LAMBDA w : Get(w, "message") # Str(EndlessWalkMessage))
            matching == SelectSeq(RingCandidates(parsed),
                                  LAMBDA n : \E s \in TwoRingSets :
                                                includes(toLowerCase(n), toLowerCase(s)))
        IN generic
             = IF Len(matching) > 1
               THEN <<Warning("slot_conflict",
                              RingConflictMessage([i \in DOMAIN matching |-> Str(matching[i])]))>>
               ELSE <<>>

\* C12: the named-pair rule emits its slot_conflict warning whenever the
\* candidate list (set names plus ring-slot item names) holds a name of the
\* Endless Walk archetype and a name of the Focus-Restraint archetype, and
\* emits none when names of only one of the two archetypes are present.
C12_NamedPairRule ==
    (pc = "done") =>
        LET CandidateWith(words) ==
                \E i \in DOMAIN RingCandidates(parsed) :
                    \E w \in words : includes(toLowerCase(RingCandidates(parsed)[i]), w)
            namedPair == SelectSeq(WarningsOfType(outcome, "slot_conflict"),
                                   LAMBDA w : Get(w, "message") = Str(EndlessWalkMessage))
        IN namedPair
             = IF /\ CandidateWith({"traveler", "compass rose", "endless walk"})
                  /\ CandidateWith({"focus", "restraint"})
               THEN <<Warning("slot_conflict", EndlessWalkMessage)>>
               ELSE <<>>

\* the pair is recognised through a ring-slot item, and the generic rule is silent
C12_Witness ==
    /\ pc = "done"
    /\ WarningsOfType(outcome, "slot_conflict") = <<Warning("slot_conflict", EndlessWalkMessage)>>
    /\ Len(Get(Get(parsed, "gear"), "sets").a) = 1
    /\ Len(RingCandidates(parsed)) = 2
    /\ RingCandidates(parsed)[2] = "The Compass Rose"


-----------------------------------------------------------------------------
(* Properties of the store *)

\* the step just taken belongs to a pipeline run and is of the given kinds
RunStep(kinds) == last'.op \in kinds /\ (runs' # runs \/ nextSeq' # nextSeq)

\* C4: no step of a pipeline run that fails (its start, its meta-build
\* lookup, its failure on a missing key, a failed producer call, an
\* unparseable text, a throwing validation) changes the cache: every entry
\* stays, with its value, and none is created.
C4_FailureLeavesCache ==
    [][RunStep({"start", "fetch", "fail"}) => cache' = cache]_vars

C4_Witness ==
    /\ last.op = "fail"
    /\ last.hero \in DOMAIN cache
    /\ error # Null /\ recommendation = Null

\* C5: a call with forceRefresh never takes the cache branch, and when its
\* run succeeds the cache entry of its hero is the new result.
C5_ForceRefreshWrites ==
    [][/\ \A hero \in Heroes :
            generateBuildSuggestion(hero, TRUE) => last'.op \in {"start", "fail"}
       /\ \A run \in runs, k \in DOMAIN Responses :
            (/\ RunSettles(run, k)
             /\ ~IsThrow(Outcomes[k, run.hero, run.enhanced, run.metaBuild]))
            => /\ run.hero.heroId \in DOMAIN cache'
               /\ cache'[run.hero.heroId] = Outcomes[k, run.hero, run.enhanced, run.metaBuild]
               /\ recommendation' = cache'[run.hero.heroId]]_vars

C5_Witness ==
    /\ last.op = "succeed" /\ last.bypass
    /\ nextSeq = 2
    /\ cacheWriter[last.hero] = 2
    /\ recommendation = cache[last.hero]

\* C6: a call without forceRefresh for a hero that has a cache entry shows
\* exactly that entry, sets analyzedHeroId, starts no run (no producer
\* call), and leaves isAnalyzing and the cache as they were.
C6_CacheHit ==
    [][\A hero \in Heroes :
          (generateBuildSuggestion(hero, FALSE) /\ hero.heroId \in DOMAIN cache)
          => /\ recommendation' = cache[hero.heroId]
             /\ analyzedHeroId' = Num(hero.heroId)
             /\ runs' = runs /\ nextSeq' = nextSeq
             /\ isAnalyzing' = isAnalyzing
             /\ cache' = cache]_vars

C6_Witness ==
    /\ last.op = "cacheHit"
    /\ recommendation = cache[last.hero]
    /\ analyzedHeroId = Num(last.hero)
    /\ isAnalyzing /\ runs # {}

\* C7: when a run completes after a run that started later has already
\* written its result, the late result is discarded: the cache entry and
\* the displayed recommendation written by the later run stay.
C7_StaleResultDiscarded ==
    [][\A run \in runs :
          (run \notin runs' /\ last'.op = "succeed")
          => /\ (/\ run.hero.heroId \in DOMAIN cacheWriter
                 /\ cacheWriter[run.hero.heroId] > run.seq)
                => cache'[run.hero.heroId] = cache[run.hero.heroId]
             /\ recWriter > run.seq => recommendation' = recommendation]_vars


\* C20: every user-triggered re-analysis is a fresh run: when the user
\* triggers analysis for the loaded hero while a recommendation is shown
\* (Re-analyze) or after a failed run (Try Again), a new producer call is
\* started and no cached result is returned.
C20_ReanalysisIsFresh ==
    [][\A hero \in Heroes :
          (handleAnalyze(hero) /\ (recommendation # Null \/ error # Null))
          => /\ last'.op = "start"
             /\ nextSeq' = nextSeq + 1
             /\ \E run \in runs' \ runs : run.hero = hero]_vars


\* C21: at no time are two producer requests for the same hero id in
\* flight: a generateBuildSuggestion call for a hero that has a run
\* outstanding launches no second run for that hero.
C21_OneRunPerHero ==
    \A r1 \in runs, r2 \in runs : r1.hero.heroId = r2.hero.heroId => r1 = r2


\* C22: the recommendation generateBuildSuggestion delivers has the shape of
\* the mode selected when the call was made: with enhanced mode it carries
\* tieredUpgrades and progressionPath, with basic mode neither, also when it
\* is served from the cache after the mode setting has changed.
C22_ShapeOfSelectedMode ==
    [][LET HasShape(rec, mode) ==
               /\ ("tieredUpgrades" \in DOMAIN rec.o) = mode
               /\ ("progressionPath" \in DOMAIN rec.o) = mode
       IN /\ \A hero \in Heroes :
                (generateBuildSuggestion(hero, FALSE) /\ hero.heroId \in DOMAIN cache)
                => HasShape(recommendation', useMaxrollData)
          /\ \A run \in runs, k \in DOMAIN Responses :
                (RunSettles(run, k) /\ last'.op = "succeed")
                => HasShape(recommendation', run.enhanced)]_vars


\* C23: after any sequence of store operations, whenever recommendation is
\* non-null, analyzedHeroId is non-null and the cache entry under
\* analyzedHeroId is that same recommendation.
C23_DisplayedIsCached ==
    recommendation # Null =>
        /\ analyzedHeroId # Null
        /\ analyzedHeroId.n \in DOMAIN cache
        /\ cache[analyzedHeroId.n] = recommendation

\* two runs have completed and the entry of the hero that is not displayed
\* has been invalidated
C23_Witness ==
    /\ recommendation # Null
    /\ last.op = "invalidateHeroCache"
    /\ last.hero # analyzedHeroId.n
    /\ nextSeq = 2 /\ runs = {}
    /\ DOMAIN cache = {analyzedHeroId.n}


\* C24: the store's error and recommendation are never both non-null, also
\* when two runs overlap and one fails while the other succeeds.
C24_ErrorExcludesRecommendation ==
    ~(error # Null /\ recommendation # Null)


\* C25: isAnalyzing is true exactly while at least one pipeline run is in
\* flight: never false while a run is outstanding, and false once every
\* started run has completed.
C25_AnalyzingIffRunInFlight ==
    isAnalyzing <=> runs # {}


\* C26: after clearCache or invalidateHeroCache(id), a run that was already
\* in flight at the time of the invalidation does not repopulate the cache
\* entry of the invalidated id or the displayed recommendation with its
\* result.  Stated for the step that follows the invalidation: the runs
\* outstanding then were all started before it.
C26_InFlightRunDoesNotRepopulate ==
    [][\A run \in runs, k \in DOMAIN Responses :
          LET id == run.hero.heroId
              Invalidated == \/ last.op = "clearCache"
                             \/ last.op = "invalidateHeroCache" /\ last.hero = id
          IN (Invalidated /\ RunSettles(run, k))
             => /\ id \notin DOMAIN cache'
                /\ ~(recommendation' # Null /\ analyzedHeroId' = Num(id))]_vars


\* C27: every saved report pairs a hero with a recommendation computed for
\* that hero: saveReport is never invoked with the current hero's id, name
\* and class together with a live recommendation whose analyzedHeroId is a
\* different hero.
C27_ReportPairsHeroWithItsRecommendation ==
    [][handleSaveReport => analyzedHeroId = Num(currentHero.heroId)]_vars


\* C28: isEnhancedAnalysis always agrees with the displayed recommendation:
\* it is true if and only if recommendation is non-null and carries
\* tieredUpgrades.
C28_EnhancedFlagAgrees ==
    isEnhancedAnalysis <=> (recommendation # Null /\ HasTieredUpgrades(recommendation))


\* C29: the enhanced normalize always yields tieredUpgrades with three lists
\* quick, medium and long and a progressionPath with a steps list and a
\* criticalPath list of strings; a bucket that is not a list becomes empty,
\* and a bucket given as a list of n entries yields exactly n steps in the
\* same order (a malformed entry becomes a default step, none is dropped),
\* each with a non-empty string id and a numeric priority.
C29_EnhancedShape ==
    (ParseDone /\ enhanced /\ ~IsThrow(parsed)) =>
        LET json == JSONparse(ExtractJsonStr(content))
            upgrades == Get(parsed, "tieredUpgrades")
            path == Get(parsed, "progressionPath")
            Malformed(step) == ~Truthy(step) \/ ~TypeofObject(step)
            Bucket(in, out, tier) ==
                /\ IsArray(out)
                /\ ~IsArray(in) => out = EmptyArr
                /\ IsArray(in) =>
                      /\ Len(out.a) = Len(in.a)
                      /\ \A i \in DOMAIN in.a :
                            /\ Malformed(in.a[i])
                                  => out.a[i] = createDefaultUpgradeStep(i - 1, tier)
                            /\ (~Malformed(in.a[i]) /\ IsString(Get(in.a[i], "id"))
                                /\ Get(in.a[i], "id").s # "")
                                  => Get(out.a[i], "id") = Get(in.a[i], "id")
                /\ \A step \in Range(out.a) :
                      /\ IsString(Get(step, "id")) /\ Get(step, "id").s # ""
                      /\ IsNumber(Get(step, "priority"))
        IN /\ \A tier \in DifficultyTiers :
                Bucket(Get(Get(json, "tieredUpgrades"), tier), Get(upgrades, tier), tier)
           /\ Bucket(Get(Get(json, "progressionPath"), "steps"), Get(path, "steps"), "medium")
           /\ IsArray(Get(path, "criticalPath"))
           /\ \A name \in Range(Get(path, "criticalPath").a) : IsString(name)


\* C30: when the producer gives no valid estimatedTime for a step's item and
\* the reference table has no entry for that item name, the item's
\* estimatedTime equals the tier of the bucket that holds the step (quick,
\* medium or long; medium for progression-path steps).
C30_EstimatedTimeIsBucketTier ==
    (ParseDone /\ enhanced /\ ~IsThrow(parsed)) =>
        LET json == JSONparse(ExtractJsonStr(content))
            NoEntry(sent) ==
                \/ sent.t # "object"
                \/ ItemKeysIgnoringCase(toLowerCase(JSString(Or(Get(sent, "itemName"),
                                                                    Str(""))))) = {}
            Bucket(in, out, tier) ==
                (IsArray(in) /\ IsArray(out) /\ Len(in.a) = Len(out.a)) =>
                    \A i \in DOMAIN in.a :
                        LET sent == Get(in.a[i], "item")
                        IN (validateDifficultyTier(Get(sent, "estimatedTime")) = Null
                            /\ NoEntry(sent))
                           => Get(Get(out.a[i], "item"), "estimatedTime") = Str(tier)
        IN /\ \A tier \in DifficultyTiers :
                Bucket(Get(Get(json, "tieredUpgrades"), tier),
                       Get(Get(parsed, "tieredUpgrades"), tier), tier)
           /\ Bucket(Get(Get(json, "progressionPath"), "steps"),
                     Get(Get(parsed, "progressionPath"), "steps"), "medium")

====
